---------------------------- MODULE Spec2Model ----------------------------
(***************************************************************************)
(* A model of the alerter of santaclousdon/monitoring-blockchain:          *)
(*   - the Chainlink contracts monitor's v3 and v4 collectors              *)
(*     (src/alerter/src/monitors/contracts/chainlink.py),                  *)
(*   - the GitHub alerters manager                                         *)
(*     (src/alerter/src/alerter/managers/github.py),                       *)
(*   - the system data transformer, whose behaviour is fixed by            *)
(*     src/alerter/test/data_transformers/test_system.py,                  *)
(*   - the GitHub alerter (src/alerter/src/alerter/alerters/github.py),    *)
(*   - the config manager and its helper thread                            *)
(*     (src/alerter/src/config_manager/config_manager.py),                 *)
(*   - a worker's loops (src/alerter/src/monitors/starters.py,             *)
(*     src/alerter/src/monitors/monitor.py).                               *)
(* Each subsystem has its own next-state relation and specification; the   *)
(* variables of the other subsystems stay unchanged under it.              *)
(***************************************************************************)
EXTENDS Integers, Sequences, FiniteSets, TLC

\* Python's None, for fields that hold a number otherwise.
NULL == -1

-----------------------------------------------------------------------------
(* Bounds of the model *)

\* Highest block number the chain reaches.
MaxBlock == 3
\* Most SubmissionReceived / NewTransmission events the chain holds.
MaxEvents == 2
\* Most blocks the selected EVM node may lag behind the chain's tip.
MaxLag == 1
\* The capacity of a publishing queue.
MaxQueueSize == 4
\* How many times the alerter's process exits.
MaxExits == 2
\* How many publications the broker fails to deliver.
MaxNotDelivered == 2
\* How many raw messages the transformer receives.
MaxMessages == 3
\* Most sections ('1', '2', ...) an alerts configuration carries.
MaxSections == 3
\* How many messages the alerter's input queue delivers.
MaxDeliveries == 3
\* Most configs the config manager's publishing queue holds.
MaxConfigs == 2
\* How many monitoring rounds a worker runs.
MaxRounds == 4
\* How many times start_monitor calls monitor.start().
MaxStarts == 3

-----------------------------------------------------------------------------
VARIABLES
    chainHead,             \* block number of the chain's tip
    v3Events,              \* SubmissionReceived logs of the operator, in log order
    v3RoundData,           \* the v3 aggregator's rounds: round id -> [answer, updatedAt]
    last_block_monitored,  \* proxy -> block number, NULL when the key is absent
    last_round_observed,   \* proxy -> round id, NULL when absent or None
    v3Tick,                \* what the last run of the v3 collector did, and
                           \* v3Pending as it was before that run
    v3Pending,             \* history: rounds last emitted without consensus
    v4Events,              \* NewTransmission logs of the v4 aggregator, in log order
    transmitters,          \* the v4 aggregator's transmitters(), a list of addresses
    v4Tick,                \* what the last run of the v4 collector did
    alerter_process_dict,  \* the manager's child process per alerter name
    publishing_queue,      \* the manager's publishing queue
    mgrPhase,              \* "stopped", or "listening" inside start()
    mgrRun,                \* what the last run of start() or a ping did
    resets_published,      \* history: ComponentReset alerts the broker confirmed
    child_starts,          \* history: child processes started
    child_exits,           \* history: child processes that exited
    not_delivered,         \* history: failed publications
    dtState,               \* the transformer's state: system id -> System
    dtStore,               \* the systems as the store holds them
    dt_publishing_queue,   \* the transformer's publishing queue
    dtProcessed,           \* raw messages received; the time of the last one
    dtRun,                 \* what the last run of _process_raw_data did
    dtFirstDown,           \* history: first downtime error since the last
                           \* result, per system id
    factory_configs,       \* the alerts configs factory: chain name -> config
    factoryRun,            \* what the last call on the factory did
    wei_watchers_can_do_task,  \* the catalog limiter's can_do_task()
    address_can_do_task,   \* the address limiter's can_do_task()
    contracts_data,        \* the stored catalog: its version, 0 for []
    node_address,          \* node id -> address, for the nodes that have one
    node_contracts,        \* the stored result of the last filtering
    monTick,               \* what the last run of _monitor did
    alerter_input,         \* the alerter's input queue: delivered, not processed
    delivered,             \* the delivery tag of the last message delivered
    cannot_access_github_page,  \* the alerter's flag of each repository
    api_call_error,        \* the alerter's flag of each repository
    alerter_publishing_queue,   \* the alerter's publishing queue
    ack_count,             \* history: delivery tag -> times acknowledged
    unresolved,            \* history: repository -> conditions alerted on
                           \* and not resolved since
    alerterRun,            \* what the last run of _process_data did
    cfg_main_thread,       \* the config manager's main thread: where it is
    sending_configs_thread,    \* the config manager's helper thread: where it is
    connected_to_rabbit,   \* the config manager's _connected_to_rabbit
    adapter_connected,     \* the config manager's adapters: adapter -> connected
    config_publishing_queue,   \* configs waiting to be published, a count
    watching,              \* the config manager's _watching
    adapter_threads,       \* history: adapter -> the threads that connected,
                           \* used or disconnected it
    worker_phase,          \* the worker: where start_monitor is
    worker_connected,      \* the worker's adapter is connected
    worker_rounds,         \* history: monitoring rounds run
    worker_starts,         \* history: calls of monitor.start()
    workerRun,             \* what the last step of the worker did
    passed_blocks,         \* history: blocks the stored v3 watermark has passed
    published_rounds,      \* history: v3 rounds of the messages published
    filled_rounds,         \* history: v3 rounds emitted with their answer
    dataRun                \* what the last retrieval for the operator did

chainVars == <<chainHead, v3Events, v3RoundData>>
monitorVars == <<last_block_monitored, last_round_observed>>
v3Only == <<v3Events, v3RoundData, v3Tick, v3Pending>>
v4Only == <<v4Events, transmitters, v4Tick>>

\* What the collectors of the other kind, and the other components, own.
mgrOnly == <<alerter_process_dict, publishing_queue, mgrPhase, mgrRun,
             resets_published, child_starts, child_exits, not_delivered>>
dtOnly == <<dtState, dtStore, dt_publishing_queue, dtProcessed, dtRun,
            dtFirstDown>>
factoryOnly == <<factory_configs, factoryRun>>
monOnly == <<wei_watchers_can_do_task, address_can_do_task, contracts_data,
             node_address, node_contracts, monTick>>
alerterOnly == <<alerter_input, delivered, cannot_access_github_page,
                 api_call_error, alerter_publishing_queue, ack_count,
                 unresolved, alerterRun>>
cfgOnly == <<cfg_main_thread, sending_configs_thread, connected_to_rabbit,
             adapter_connected, config_publishing_queue, watching,
             adapter_threads>>
workerOnly == <<worker_phase, worker_connected, worker_rounds, worker_starts,
                workerRun>>
dataOnly == <<passed_blocks, published_rounds, filled_rounds, dataRun>>
notV3 == <<v4Only, mgrOnly, dtOnly, factoryOnly, monOnly, alerterOnly,
           cfgOnly, workerOnly, dataOnly>>
notV4 == <<v3Only, mgrOnly, dtOnly, factoryOnly, monOnly, alerterOnly,
           cfgOnly, workerOnly, dataOnly>>
notMgr == <<chainHead, last_block_monitored, last_round_observed, v3Only,
            v4Only, dtOnly, factoryOnly, monOnly, alerterOnly, cfgOnly,
            workerOnly, dataOnly>>
notDT == <<chainHead, last_block_monitored, last_round_observed, v3Only,
           v4Only, mgrOnly, factoryOnly, monOnly, alerterOnly, cfgOnly,
           workerOnly, dataOnly>>
notFactory == <<chainHead, last_block_monitored, last_round_observed, v3Only,
                v4Only, mgrOnly, dtOnly, monOnly, alerterOnly, cfgOnly,
                workerOnly, dataOnly>>
notMon == <<chainHead, last_block_monitored, last_round_observed, v3Only,
            v4Only, mgrOnly, dtOnly, factoryOnly, alerterOnly, cfgOnly,
            workerOnly, dataOnly>>
notAlerter == <<chainHead, last_block_monitored, last_round_observed, v3Only,
                v4Only, mgrOnly, dtOnly, factoryOnly, monOnly, cfgOnly,
                workerOnly, dataOnly>>
notCfg == <<chainHead, last_block_monitored, last_round_observed, v3Only,
            v4Only, mgrOnly, dtOnly, factoryOnly, monOnly, alerterOnly,
            workerOnly, dataOnly>>
notWorker == <<chainHead, last_block_monitored, last_round_observed, v3Only,
               v4Only, mgrOnly, dtOnly, factoryOnly, monOnly, alerterOnly,
               cfgOnly, dataOnly>>
notData == <<chainHead, last_block_monitored, last_round_observed, v3Only,
             v4Only, mgrOnly, dtOnly, factoryOnly, monOnly, alerterOnly,
             cfgOnly, workerOnly>>

vars == <<chainHead, last_block_monitored, last_round_observed, v3Only,
          v4Only, mgrOnly, dtOnly, factoryOnly, monOnly, alerterOnly,
          cfgOnly, workerOnly, dataOnly>>

-----------------------------------------------------------------------------
(* The chain, as the collectors see it *)

V3Proxy == "v3_proxy"
V4Proxy == "v4_proxy"
V4NextProxy == "v4_next_proxy"
Proxies == {V3Proxy, V4Proxy, V4NextProxy}

\* Round ids the model can reach: every event opens a round at most 2 above
\* the previous one.
RoundIds == 1..(2 * MaxEvents)

NoRoundData == [answer |-> 0, updatedAt |-> 0]

\* The answer the aggregator settles on for a round, and the time it does.
AnswerOf(r) == 100 + r
TimestampOf(r) == 1000 + r

LastRound(events) ==
    IF events = <<>> THEN 0 ELSE events[Len(events)].round

\* The head block the selected node reports: the tip, or up to MaxLag behind.
Heads == {h \in 0..chainHead : h >= chainHead - MaxLag}

-----------------------------------------------------------------------------
(* ChainlinkContractsMonitor._get_v3_data *)

\* first_block_to_monitor without the clamp to the head.
FirstBlockUnclamped(lbm, current_block_height) ==
    IF lbm # NULL THEN lbm + 1 ELSE current_block_height

\* first_block_to_monitor: last block monitored + 1, the head on first sight,
\* never beyond the head.
FirstBlockToMonitor(lbm, current_block_height) ==
    LET first == IF lbm # NULL THEN lbm + 1 ELSE current_block_height
    IN  IF first > current_block_height THEN current_block_height ELSE first

\* event_filter.get_all_entries(): the logs of blocks fromBlock..toBlock.
GetAllEntries(events, fromBlock, toBlock) ==
    SelectSeq(events, LAMBDA e : fromBlock <= e.blockNumber
                                 /\ e.blockNumber <= toBlock)

\* getRoundData(round_id) raises ContractLogicError while the round has no data.
ConsensusReached(roundData, round_id) == roundData[round_id].updatedAt > 0

\* Mutant: the round without consensus is emitted with the data of an empty
\* round instead of None.
V3RoundEntryUnchecked(roundData, event) ==
    [roundId |-> event.round,
     roundAnswer |-> roundData[event.round].answer,
     roundTimestamp |-> roundData[event.round].updatedAt,
     answeredInRound |-> event.round,
     nodeSubmission |-> event.submission]

\* The historicalRounds entry of one SubmissionReceived event.
V3RoundEntry(roundData, event) ==
    LET ok == ConsensusReached(roundData, event.round)
    IN  [roundId |-> event.round,
         roundAnswer |-> IF ok THEN roundData[event.round].answer ELSE NULL,
         roundTimestamp |-> IF ok THEN roundData[event.round].updatedAt ELSE NULL,
         answeredInRound |-> IF ok THEN event.round ELSE NULL,
         nodeSubmission |-> event.submission]

\* Mutant: the watermark is rolled back to the event's block itself.
RollbackHeightOffByOne(event) == event.blockNumber

\* The height the watermark is rolled back to for a round without consensus.
RollbackHeight(event) == event.blockNumber - 1

\* The loop over the events: acc is [historicalRounds, last_round_observed,
\* current_block_height, no_consensus]; no_consensus holds the round whose
\* getRoundData raised, at which the loop stops.
RECURSIVE V3Scan(_, _, _)
V3Scan(events, roundData, acc) ==
    IF events = <<>> THEN acc
    ELSE LET event == Head(events)
             acc1 == [acc EXCEPT
                        !.historicalRounds =
                            Append(@, V3RoundEntry(roundData, event)),
                        !.last_round_observed = event.round]
         IN  IF ~ConsensusReached(roundData, event.round)
             THEN [acc1 EXCEPT !.current_block_height = RollbackHeight(event),
                               !.no_consensus = @ \cup {event.round}]
             ELSE V3Scan(Tail(events), roundData, acc1)

\* Mutant: the last round observed is the round of the last event of the
\* window, also when the loop stopped before it.
V3CollectWholeWindow(h) ==
    LET first == FirstBlockToMonitor(last_block_monitored[V3Proxy], h)
        events == GetAllEntries(v3Events, first, h)
        res == V3Scan(events, v3RoundData,
                      [historicalRounds |-> <<>>,
                       last_round_observed |-> last_round_observed[V3Proxy],
                       current_block_height |-> h,
                       no_consensus |-> {}])
    IN  [status |-> "finished", head |-> h, first |-> first,
         historicalRounds |-> res.historicalRounds,
         lastRoundObserved |-> IF events = <<>> THEN res.last_round_observed
                               ELSE events[Len(events)].round,
         current_block_height |-> res.current_block_height,
         no_consensus |-> res.no_consensus,
         pending_before |-> v3Pending,
         last_round_before |-> last_round_observed[V3Proxy]]

\* One (operator, proxy) pair of the v3 loop, run to its end with head block h.
V3Collect(h) ==
    LET first == FirstBlockToMonitor(last_block_monitored[V3Proxy], h)
        events == GetAllEntries(v3Events, first, h)
        res == V3Scan(events, v3RoundData,
                      [historicalRounds |-> <<>>,
                       last_round_observed |-> last_round_observed[V3Proxy],
                       current_block_height |-> h,
                       no_consensus |-> {}])
    IN  [status |-> "finished", head |-> h, first |-> first,
         historicalRounds |-> res.historicalRounds,
         lastRoundObserved |-> res.last_round_observed,
         current_block_height |-> res.current_block_height,
         no_consensus |-> res.no_consensus,
         pending_before |-> v3Pending,
         last_round_before |-> last_round_observed[V3Proxy]]

\* Rounds of a tick's historicalRounds emitted with / without an answer.
NullRounds(hist) ==
    {hist[i].roundId : i \in {j \in DOMAIN hist : hist[j].roundAnswer = NULL}}
FilledRounds(hist) ==
    {hist[i].roundId : i \in {j \in DOMAIN hist : hist[j].roundAnswer # NULL}}

V3Tick(h) ==
    /\ h \in Heads
    /\ LET t == V3Collect(h)
       IN  /\ v3Tick' = t
           /\ last_block_monitored' =
                [last_block_monitored EXCEPT ![V3Proxy] = t.current_block_height]
           /\ last_round_observed' =
                [last_round_observed EXCEPT ![V3Proxy] = t.lastRoundObserved]
           /\ v3Pending' = (v3Pending \ FilledRounds(t.historicalRounds))
                              \cup t.no_consensus
    /\ UNCHANGED chainVars
    /\ UNCHANGED notV3

\* A web3 call of the pair raises (connection error, timeout): the collector
\* is left before the watermark and the last round observed are stored.
V3TickRaises(h) ==
    /\ h \in Heads
    /\ v3Tick' = [status |-> "raised", head |-> h, first |-> h,
                  historicalRounds |-> <<>>, lastRoundObserved |-> NULL,
                  current_block_height |-> h, no_consensus |-> {},
                  pending_before |-> v3Pending,
                  last_round_before |-> last_round_observed[V3Proxy]]
    /\ UNCHANGED <<chainVars, monitorVars, v3Pending>>
    /\ UNCHANGED notV3

-----------------------------------------------------------------------------
(* The environment of the v3 collector *)

\* A block is mined; it may hold a submission of the operator, to a round
\* above the operator's last one, with or without the round's answer settled.
V3MineBlock(withEvent, skip, settled) ==
    /\ chainHead < MaxBlock
    /\ chainHead' = chainHead + 1
    /\ IF withEvent /\ Len(v3Events) < MaxEvents
       THEN LET r == LastRound(v3Events) + skip
            IN  /\ v3Events' = Append(v3Events,
                       [round |-> r, blockNumber |-> chainHead + 1,
                        submission |-> AnswerOf(r) - 1])
                /\ v3RoundData' =
                       IF settled
                       THEN [v3RoundData EXCEPT ![r] =
                               [answer |-> AnswerOf(r), updatedAt |-> TimestampOf(r)]]
                       ELSE v3RoundData
       ELSE UNCHANGED <<v3Events, v3RoundData>>
    /\ UNCHANGED <<monitorVars, v3Tick, v3Pending>>
    /\ UNCHANGED notV3

\* A round the operator submitted to reaches consensus.
V3ReachConsensus(r) ==
    /\ \E i \in DOMAIN v3Events : v3Events[i].round = r
    /\ v3RoundData[r].updatedAt = 0
    /\ v3RoundData' = [v3RoundData EXCEPT ![r] =
                         [answer |-> AnswerOf(r), updatedAt |-> TimestampOf(r)]]
    /\ UNCHANGED <<chainHead, v3Events, monitorVars, v3Tick, v3Pending>>
    /\ UNCHANGED notV3

-----------------------------------------------------------------------------
(* ChainlinkContractsMonitor._get_v4_data *)

Operator == "operator"
OtherOracle == "other"

\* The transmitter lists the aggregator's configuration takes.
TransmitterLists ==
    {<<Operator, OtherOracle>>, <<OtherOracle, Operator>>, <<OtherOracle>>}

\* The observers of a transmission: transmitter indices (from 0), in the
\* order of their observations.
ObserverLists == {<<0>>, <<1>>, <<1, 0>>}

\* The observation the k-th observer of round r reported.
ObservationOf(r, k) == 200 + 10 * r + k

\* list.index(x), from 0; NULL where Python raises ValueError.
IndexOf(list, x) ==
    IF \E i \in DOMAIN list : list[i] = x
    THEN (CHOOSE i \in DOMAIN list :
             list[i] = x /\ \A j \in DOMAIN list : list[j] = x => i <= j) - 1
    ELSE NULL

\* Mutant: the submission is looked up at the transmitter index itself.
V4NodeSubmissionByIndex(event, node_transmitter_index) ==
    IF node_transmitter_index + 1 \in DOMAIN event.observations
    THEN event.observations[node_transmitter_index + 1]
    ELSE NULL

\* nodeSubmission: the observation at the operator's place among the
\* observers, None when the operator is not among them.
V4NodeSubmission(event, node_transmitter_index) ==
    LET answer_index == IndexOf(event.observers, node_transmitter_index)
    IN  IF answer_index # NULL
        THEN event.observations[answer_index + 1]
        ELSE NULL

\* Mutant: every round of the window advances the last round observed.
V4LastRoundAlwaysAdvanced(last, event, node_transmitter_index) == event.round

\* last_round_observed after an event: its round when the operator is among
\* the observers, unchanged otherwise.
V4LastRoundObserved(last, event, node_transmitter_index) ==
    IF IndexOf(event.observers, node_transmitter_index) # NULL
    THEN event.round
    ELSE last

\* The historicalRounds entry of one NewTransmission event.
V4RoundEntry(event, node_transmitter_index, list) ==
    [roundId |-> event.round,
     roundAnswer |-> AnswerOf(event.round),
     roundTimestamp |-> TimestampOf(event.round),
     answeredInRound |-> event.round,
     nodeSubmission |-> V4NodeSubmission(event, node_transmitter_index),
     noOfObservations |-> Len(event.observations),
     noOfTransmitters |-> Len(list)]

\* The loop over the events: acc is [historicalRounds, last_round_observed].
RECURSIVE V4Scan(_, _, _, _)
V4Scan(events, node_transmitter_index, list, acc) ==
    IF events = <<>> THEN acc
    ELSE LET event == Head(events)
         IN  V4Scan(Tail(events), node_transmitter_index, list,
                 [historicalRounds |->
                      Append(acc.historicalRounds,
                             V4RoundEntry(event, node_transmitter_index, list)),
                  last_round_observed |->
                      V4LastRoundObserved(acc.last_round_observed, event,
                                          node_transmitter_index)])

\* Mutant: the loop over the operator's v4 contracts is left at the contract
\* the operator does not transmit on.
V4RemainingAfterReturn(index) ==
    IF index = NULL THEN {} ELSE {V4NextProxy}

\* The contracts the v4 loop goes on to after the contract on which the
\* operator has transmitter index `index`: `continue` moves on to the next
\* contract, on which the operator transmits and which has no transmission
\* in the blocks modelled.
V4Remaining(index) == {V4NextProxy}

\* One (operator, proxy) pair of the v4 loop, run to its end with head block h.
V4Collect(h) ==
    LET first == FirstBlockToMonitor(last_block_monitored[V4Proxy], h)
        events == GetAllEntries(v4Events, first, h)
        index == IndexOf(transmitters, Operator)
        res == V4Scan(events, index, transmitters,
                      [historicalRounds |-> <<>>,
                       last_round_observed |-> last_round_observed[V4Proxy]])
    IN  [status |-> "finished", head |-> h, first |-> first,
         historicalRounds |-> res.historicalRounds,
         lastRoundObserved |-> res.last_round_observed,
         last_round_before |-> last_round_observed[V4Proxy],
         last_block_before |-> last_block_monitored[V4Proxy],
         node_transmitter_index |-> index,
         entries |-> {V4Proxy} \cup V4Remaining(index)]

V4Tick(h) ==
    /\ h \in Heads
    /\ IndexOf(transmitters, Operator) # NULL
    /\ LET t == V4Collect(h)
       IN  /\ v4Tick' = t
           /\ last_block_monitored' =
                [p \in Proxies |->
                    IF p = V4Proxy \/ p \in V4Remaining(t.node_transmitter_index)
                    THEN h ELSE last_block_monitored[p]]
           /\ last_round_observed' =
                [last_round_observed EXCEPT ![V4Proxy] = t.lastRoundObserved]
    /\ UNCHANGED <<chainHead, v4Events, transmitters>>
    /\ UNCHANGED notV4

\* The operator is no longer a transmitter: the collector moves on to the
\* next contract, with no data for this one and nothing stored for it.
V4TickSkips(h) ==
    /\ h \in Heads
    /\ IndexOf(transmitters, Operator) = NULL
    /\ v4Tick' = [status |-> "skipped", head |-> h, first |-> h,
                  historicalRounds |-> <<>>, lastRoundObserved |-> NULL,
                  last_round_before |-> last_round_observed[V4Proxy],
                  last_block_before |-> last_block_monitored[V4Proxy],
                  node_transmitter_index |-> NULL,
                  entries |-> V4Remaining(NULL)]
    /\ last_block_monitored' =
         [p \in Proxies |->
             IF p \in V4Remaining(NULL) THEN h ELSE last_block_monitored[p]]
    /\ UNCHANGED <<chainHead, v4Events, transmitters, last_round_observed>>
    /\ UNCHANGED notV4

-----------------------------------------------------------------------------
(* The environment of the v4 collector *)

\* A block is mined; it may hold a transmission, of the round after the last
\* one, with the observations of the given observers.
V4MineBlock(withEvent, obs) ==
    /\ chainHead < MaxBlock
    /\ chainHead' = chainHead + 1
    /\ IF withEvent /\ Len(v4Events) < MaxEvents
          /\ \A i \in DOMAIN obs : obs[i] < Len(transmitters)
       THEN LET r == LastRound(v4Events) + 1
            IN  v4Events' = Append(v4Events,
                    [round |-> r, blockNumber |-> chainHead + 1,
                     observers |-> obs,
                     observations |->
                        [k \in DOMAIN obs |-> ObservationOf(r, k)]])
       ELSE UNCHANGED v4Events
    /\ UNCHANGED <<transmitters, monitorVars, v4Tick>>
    /\ UNCHANGED notV4

\* The aggregator's owner sets a new list of transmitters.
V4SetConfig(t) ==
    /\ t # transmitters
    /\ transmitters' = t
    /\ UNCHANGED <<chainHead, v4Events, monitorVars, v4Tick>>
    /\ UNCHANGED notV4

-----------------------------------------------------------------------------
(* One operator of the loop of _monitor: _get_data, _process_retrieved_data *)
(* and _send_data                                                           *)

\* How the retrieval for an operator ends: its message is published; the v4
\* collector raises after the v3 collector has returned; the processing of
\* the retrieved data raises; the publication raises.
DataOutcomes == {"sent", "v4_raised", "process_raised", "send_raised"}

\* Whether the message holding the data retrieved is published.
IsPublished(outcome) == outcome = "sent"

\* The operator's turn in the loop of _monitor with head block h. _get_v3_data
\* stores the watermark and the last round of its pair before it returns, and
\* _get_v4_data those of its pair; the message is built and sent after both.
\* What the v4 collector did is followed by its watermark only.
GetData(h, outcome) ==
    /\ h \in Heads
    /\ IndexOf(transmitters, Operator) # NULL
    /\ LET t == V3Collect(h)
           t4 == V4Collect(h)
       IN  /\ v3Tick' = t
           /\ v3Pending' = (v3Pending \ FilledRounds(t.historicalRounds))
                              \cup t.no_consensus
           /\ IF outcome = "v4_raised"
              THEN /\ last_block_monitored' =
                        [last_block_monitored EXCEPT
                            ![V3Proxy] = t.current_block_height]
                   /\ last_round_observed' =
                        [last_round_observed EXCEPT
                            ![V3Proxy] = t.lastRoundObserved]
              ELSE /\ last_block_monitored' =
                        [last_block_monitored EXCEPT
                            ![V3Proxy] = t.current_block_height,
                            ![V4Proxy] = h, ![V4NextProxy] = h]
                   /\ last_round_observed' =
                        [last_round_observed EXCEPT
                            ![V3Proxy] = t.lastRoundObserved,
                            ![V4Proxy] = t4.lastRoundObserved]
           /\ passed_blocks' =
                passed_blocks \cup (t.first .. t.current_block_height)
           /\ published_rounds' =
                IF IsPublished(outcome)
                THEN published_rounds
                        \cup {t.historicalRounds[i].roundId :
                                i \in DOMAIN t.historicalRounds}
                ELSE published_rounds
           /\ filled_rounds' =
                filled_rounds \cup FilledRounds(t.historicalRounds)
           /\ dataRun' = [op |-> "get_data", outcome |-> outcome,
                          emitted_again |->
                            filled_rounds
                                \cap FilledRounds(t.historicalRounds)]
    /\ UNCHANGED <<chainVars, v4Only>>
    /\ UNCHANGED <<mgrOnly, dtOnly, factoryOnly, monOnly, alerterOnly,
                   cfgOnly, workerOnly>>

-----------------------------------------------------------------------------
(* GithubAlerterManager *)

GITHUB_ALERTER_NAME == "GitHub Alerter"
AlerterNames == {GITHUB_ALERTER_NAME}

\* ComponentResetAlert(GITHUB_ALERTER_NAME, ...).alert_data
ComponentResetAlert(name) == [alert_code |-> "ComponentReset", origin_id |-> name]

\* process.is_alive() of the entry of a name; a name with no entry is "absent".
IsAlive(dict, name) == dict[name] = "alive"

\* _push_to_queue: the message goes to the end of the queue, the oldest one
\* making room when the queue is full.
PushToQueue(queue, data) ==
    IF Len(queue) >= MaxQueueSize
    THEN Append(Tail(queue), data)
    ELSE Append(queue, data)

\* _send_data: the queue is published from its head, a message leaving the
\* queue once the broker confirms it; the first unconfirmed one raises
\* MessageWasNotDelivered and stays queued with the ones behind it.
\* confirmed is how many publications the broker confirms.
SendData(queue, confirmed) ==
    LET n == IF confirmed < Len(queue) THEN confirmed ELSE Len(queue)
    IN  [queue |-> SubSeq(queue, n + 1, Len(queue)),
         published |-> SubSeq(queue, 1, n),
         trace |-> [i \in 1..n |->
                      IF i = Len(queue) THEN "publish_own" ELSE "publish_queued"],
         raised |-> n < Len(queue)]

\* Mutant: the process is started before its reset alert is published.
StartBeforePublishing(dict, queue, confirmed) ==
    IF ~IsAlive(dict, GITHUB_ALERTER_NAME)
    THEN LET sent == SendData(
                 PushToQueue(queue, ComponentResetAlert(GITHUB_ALERTER_NAME)),
                 confirmed)
         IN  [dict |-> [dict EXCEPT ![GITHUB_ALERTER_NAME] = "alive"],
              queue |-> sent.queue,
              trace |-> <<"start_child">> \o sent.trace,
              raised |-> sent.raised]
    ELSE [dict |-> dict, queue |-> queue, trace |-> <<>>, raised |-> FALSE]

\* _start_alerters_processes: when the alerter has no live process, its
\* ComponentReset alert is queued and the queue sent, and then the process is
\* created, started and stored; an exception of the sending ends the routine.
StartAlertersProcesses(dict, queue, confirmed) ==
    IF ~IsAlive(dict, GITHUB_ALERTER_NAME)
    THEN LET sent == SendData(
                 PushToQueue(queue, ComponentResetAlert(GITHUB_ALERTER_NAME)),
                 confirmed)
         IN  IF sent.raised
             THEN [dict |-> dict, queue |-> sent.queue,
                   trace |-> sent.trace, raised |-> TRUE]
             ELSE [dict |-> [dict EXCEPT ![GITHUB_ALERTER_NAME] = "alive"],
                   queue |-> sent.queue,
                   trace |-> Append(sent.trace, "start_child"),
                   raised |-> FALSE]
    ELSE [dict |-> dict, queue |-> queue, trace |-> <<>>, raised |-> FALSE]

\* Mutant: the heartbeat lists no dead process.
HeartbeatWithoutDead(dict) ==
    [running_processes |-> {name \in AlerterNames : IsAlive(dict, name)},
     dead_processes |-> {}]

\* Mutant: a dead process, which the ping restarts, is listed as running too.
HeartbeatAllRunning(dict) ==
    [running_processes |-> {name \in AlerterNames : dict[name] # "absent"},
     dead_processes |-> {name \in AlerterNames : dict[name] = "dead"}]

\* The lists of the heartbeat of _process_ping, over the entries of the dict.
Heartbeat(dict) ==
    [running_processes |-> {name \in AlerterNames : IsAlive(dict, name)},
     dead_processes |-> {name \in AlerterNames : dict[name] = "dead"}]

\* The names whose process is alive.
AliveIn(dict) == {name \in AlerterNames : IsAlive(dict, name)}

NoHeartbeat == [running_processes |-> {}, dead_processes |-> {}]

Count(trace, ev) == Cardinality({i \in DOMAIN trace : trace[i] = ev})

\* The history counters after a run with the given trace.
MgrCount(res) ==
    /\ resets_published' = resets_published
                             + Count(res.trace, "publish_own")
                             + Count(res.trace, "publish_queued")
    /\ child_starts' = child_starts + Count(res.trace, "start_child")
    /\ not_delivered' = not_delivered + (IF res.raised THEN 1 ELSE 0)

\* start(): the publishing queue is emptied, the alerter started if it has no
\* live process, and the manager listens; an exception ends start().
MgrStart(confirmed) ==
    /\ mgrPhase = "stopped"
    /\ LET res == StartAlertersProcesses(alerter_process_dict, <<>>, confirmed)
       IN  /\ res.raised => not_delivered < MaxNotDelivered
           /\ alerter_process_dict' = res.dict
           /\ publishing_queue' = res.queue
           /\ mgrPhase' = IF res.raised THEN "stopped" ELSE "listening"
           /\ mgrRun' = [op |-> "start", trace |-> res.trace,
                         raised |-> res.raised, heartbeat |-> NoHeartbeat,
                         hb |-> "none", invoked |-> TRUE,
                         found_alive |-> AliveIn(alerter_process_dict),
                         left_alive |-> AliveIn(res.dict)]
           /\ MgrCount(res)
    /\ UNCHANGED child_exits
    /\ UNCHANGED notMgr

\* Mutant: the heartbeat is sent after a processing that raised, too.
PingHeartbeatAlways(raised, hb) == hb

\* What _process_ping does with the heartbeat: nothing ("none") when the
\* processing raised, the handler returning after it logged the exception;
\* otherwise hb, the result of sending it.
PingHeartbeat(raised, hb) == IF raised THEN "none" ELSE hb

\* _process_ping: the heartbeat is built from the processes as the ping finds
\* them, a dead alerter is restarted, and the heartbeat is sent unless the
\* processing raised. hb is what sending the heartbeat does.
MgrPing(confirmed, hb) ==
    /\ mgrPhase = "listening"
    /\ LET heartbeat == Heartbeat(alerter_process_dict)
           res == IF heartbeat.dead_processes # {}
                  THEN StartAlertersProcesses(alerter_process_dict,
                                              publishing_queue, confirmed)
                  ELSE [dict |-> alerter_process_dict,
                        queue |-> publishing_queue,
                        trace |-> <<>>, raised |-> FALSE]
       IN  /\ res.raised => not_delivered < MaxNotDelivered
           /\ alerter_process_dict' = res.dict
           /\ publishing_queue' = res.queue
           /\ mgrRun' = [op |-> "ping", trace |-> res.trace,
                         raised |-> res.raised, heartbeat |-> heartbeat,
                         hb |-> PingHeartbeat(res.raised, hb),
                         invoked |-> heartbeat.dead_processes # {},
                         found_alive |-> AliveIn(alerter_process_dict),
                         left_alive |-> AliveIn(res.dict)]
           /\ mgrPhase' = IF ~res.raised /\ hb = "error"
                          THEN "stopped" ELSE "listening"
           /\ MgrCount(res)
    /\ UNCHANGED child_exits
    /\ UNCHANGED notMgr

\* The alerter's process exits.
ChildExits ==
    /\ IsAlive(alerter_process_dict, GITHUB_ALERTER_NAME)
    /\ child_exits < MaxExits
    /\ child_exits' = child_exits + 1
    /\ alerter_process_dict' =
          [alerter_process_dict EXCEPT ![GITHUB_ALERTER_NAME] = "dead"]
    /\ UNCHANGED <<publishing_queue, mgrPhase, mgrRun, resets_published,
                   child_starts, not_delivered>>
    /\ UNCHANGED notMgr

-----------------------------------------------------------------------------
(* SystemDataTransformer *)

\* An optional value: None, or Some(v).
None == <<>>
Some(v) == <<v>>

SystemIds == {"system_1"}
\* The values a raw result reports for a total.
Metrics == {0, 1}
DOWNTIME_CODE == "SystemIsDownException"
OTHER_CODE == "PANICException"

\* System(name, id, parent_id) as constructed, and after reset().
DefaultSystem ==
    [went_down_at |-> None, last_monitored |-> None,
     network_transmit_bytes_total |-> None,
     disk_io_time_seconds_total |-> None,
     network_transmit_bytes_per_second |-> None,
     disk_io_time_seconds_in_interval |-> None]

\* The metrics a raw result carries, and the ones the transformer derives.
FlatMetrics == {"network_transmit_bytes_total", "disk_io_time_seconds_total"}
DerivedMetrics == {"network_transmit_bytes_per_second",
                   "disk_io_time_seconds_in_interval"}

\* A raw message: a result with its metrics, an error with its code, or a
\* message with neither key.
RawData(kind, code, system_id, time, net_total, disk_total) ==
    [kind |-> kind, code |-> code, system_id |-> system_id, time |-> time,
     data |-> [network_transmit_bytes_total |-> net_total,
               disk_io_time_seconds_total |-> disk_total]]

\* Mutant: the difference of the totals, not divided by the elapsed time.
PerSecondNotDivided(x_now, x_prev, t_now, t_prev) ==
    [num |-> x_now - x_prev, den |-> 1]

\* A *_per_second metric, as the exact quotient num / den.
PerSecond(x_now, x_prev, t_now, t_prev) ==
    [num |-> x_now - x_prev, den |-> t_now - t_prev]

\* An *_in_interval metric: the difference of the totals.
InInterval(x_now, x_prev) == [num |-> x_now - x_prev, den |-> 1]

\* Mutant: a downtime error always stamps went_down_at with its own time.
WentDownAtOverwritten(system, time_of_error) == Some(time_of_error)

\* went_down_at of a downtime error: the state's when the system is already
\* down, the error's time otherwise.
WentDownAt(system, time_of_error) ==
    IF system.went_down_at # None
    THEN system.went_down_at
    ELSE Some(time_of_error)

\* _transform_data: the transformed message of a raw result or error, given
\* the state of its system.
TransformData(system, raw) ==
    IF raw.kind = "result"
    THEN LET first_round == system.last_monitored = None
         IN  [kind |-> "result", code |-> raw.code,
              system_id |-> raw.system_id, time |-> raw.time,
              data |->
                [network_transmit_bytes_total |->
                     Some(raw.data.network_transmit_bytes_total),
                 disk_io_time_seconds_total |->
                     Some(raw.data.disk_io_time_seconds_total),
                 went_down_at |-> None,
                 network_transmit_bytes_per_second |->
                     IF first_round THEN None
                     ELSE Some(PerSecond(
                              raw.data.network_transmit_bytes_total,
                              system.network_transmit_bytes_total[1],
                              raw.time, system.last_monitored[1])),
                 disk_io_time_seconds_in_interval |->
                     IF first_round THEN None
                     ELSE Some(InInterval(
                              raw.data.disk_io_time_seconds_total,
                              system.disk_io_time_seconds_total[1]))]]
    ELSE IF raw.code = DOWNTIME_CODE
    THEN [kind |-> "error", code |-> raw.code,
          system_id |-> raw.system_id, time |-> raw.time,
          data |-> [went_down_at |-> WentDownAt(system, raw.time)]]
    ELSE [kind |-> "error", code |-> raw.code,
          system_id |-> raw.system_id, time |-> raw.time,
          data |-> [went_down_at |-> None]]

\* _process_transformed_data_for_saving
DataForSaving(transformed) == transformed

\* The {current, previous} pairs of the given fields.
Pairs(system, data, fields) ==
    [f \in fields |-> [current |-> data[f], previous |-> system[f]]]

\* Mutant: the pairs are built from the state after its update.
DataForAlertingAfterUpdate(system, transformed) ==
    IF transformed.kind = "result"
    THEN [transformed EXCEPT !.data =
            Pairs(transformed.data, transformed.data,
                  FlatMetrics \cup DerivedMetrics \cup {"went_down_at"})]
    ELSE IF transformed.code = DOWNTIME_CODE
    THEN [transformed EXCEPT !.data =
            Pairs(transformed.data, transformed.data, {"went_down_at"})]
    ELSE transformed

\* _process_transformed_data_for_alerting: every field of a result, and
\* went_down_at of a downtime error, with the value the state holds as previous.
DataForAlerting(system, transformed) ==
    IF transformed.kind = "result"
    THEN [transformed EXCEPT !.data =
            Pairs(system, transformed.data,
                  FlatMetrics \cup DerivedMetrics \cup {"went_down_at"})]
    ELSE IF transformed.code = DOWNTIME_CODE
    THEN [transformed EXCEPT !.data =
            Pairs(system, transformed.data, {"went_down_at"})]
    ELSE transformed

\* _update_state: a result sets every metric and last_monitored and marks
\* the system as up, a downtime error marks it as down since went_down_at,
\* any other error leaves the state as it is.
UpdateState(system, transformed) ==
    IF transformed.kind = "result"
    THEN [went_down_at |-> None,
          last_monitored |-> Some(transformed.time),
          network_transmit_bytes_total |->
              transformed.data.network_transmit_bytes_total,
          disk_io_time_seconds_total |->
              transformed.data.disk_io_time_seconds_total,
          network_transmit_bytes_per_second |->
              transformed.data.network_transmit_bytes_per_second,
          disk_io_time_seconds_in_interval |->
              transformed.data.disk_io_time_seconds_in_interval]
    ELSE IF transformed.code = DOWNTIME_CODE
    THEN [system EXCEPT !.went_down_at = transformed.data.went_down_at]
    ELSE system

\* load_state: the system as the store holds it, and the default system when
\* the store does not hold it or cannot be reached.
LoadState(store, system_id, redis_online) ==
    IF redis_online /\ store[system_id] # None
    THEN store[system_id][1]
    ELSE DefaultSystem

\* The save payload placed before the alert payload.
PlaceSavePayloadFirst(queue, data_for_alerting, data_for_saving) ==
    PushToQueue(
        PushToQueue(queue, [exchange |-> "store", data |-> data_for_saving]),
        [exchange |-> "alert", data |-> data_for_alerting])

\* _place_latest_data_on_queue: the alert payload, then the save payload.
PlaceLatestDataOnQueue(queue, data_for_alerting, data_for_saving) ==
    PushToQueue(
        PushToQueue(queue, [exchange |-> "alert", data |-> data_for_alerting]),
        [exchange |-> "store", data |-> data_for_saving])

\* The store consumes the save payloads the broker confirmed, in order.
RECURSIVE SaveAll(_, _)
SaveAll(store, published) ==
    IF published = <<>> THEN store
    ELSE LET payload == Head(published)
             id == payload.data.system_id
             system == IF store[id] = None THEN DefaultSystem ELSE store[id][1]
         IN  SaveAll(
                 IF payload.exchange = "store"
                 THEN [store EXCEPT ![id] = Some(UpdateState(system, payload.data))]
                 ELSE store,
                 Tail(published))

\* The first downtime error since the last result, after one more message.
FirstDownAfter(first_down, raw) ==
    IF raw.kind = "result" THEN None
    ELSE IF raw.code = DOWNTIME_CODE /\ first_down = None THEN Some(raw.time)
    ELSE first_down

NoRun == [op |-> "none"]

\* Mutant: the payloads are placed on the queue before the state is updated,
\* so they are queued whether or not the update raises.
PlaceBeforeUpdateState(queue, update_raised, alerting, saving) ==
    PlaceLatestDataOnQueue(queue, alerting, saving)

\* The queue after _update_state and _place_latest_data_on_queue: the state
\* is updated first, and an exception of the update leaves the try block
\* before the payloads are placed.
PlaceAfterUpdateState(queue, update_raised, alerting, saving) ==
    IF update_raised THEN queue
    ELSE PlaceLatestDataOnQueue(queue, alerting, saving)

\* Mutant: the heartbeat is sent whenever the sending succeeded.
DTHeartbeatUnlessSendFails(processing_error, send_raised) == ~send_raised

\* Whether _process_raw_data sends the heartbeat: the processing raised
\* nothing and _send_data raised nothing.
DTSendsHeartbeat(processing_error, send_raised) ==
    ~processing_error /\ ~send_raised

\* _process_raw_data: the state of a system seen for the first time is
\* loaded, the message transformed and acknowledged, the state updated, the
\* two payloads queued, and the queue sent; a heartbeat follows unless the
\* processing or the sending failed. MessageWasNotDelivered is not raised.
\* A message that is neither a result nor an error is dropped, and the queue
\* sent all the same.
DTProcessRawData(raw, redis_online, confirmed) ==
    /\ dtProcessed < MaxMessages
    /\ raw.time = dtProcessed + 1
    /\ raw.kind \in {"result", "error"}
    /\ dtState[raw.system_id] # None => redis_online
    /\ \E system \in {IF dtState[raw.system_id] = None
                      THEN LoadState(dtStore, raw.system_id, redis_online)
                      ELSE dtState[raw.system_id][1]} :
       \E transformed \in {TransformData(system, raw)} :
       \E data_for_alerting \in {DataForAlerting(system, transformed)} :
       \E data_for_saving \in {DataForSaving(transformed)} :
       \E queue \in {PlaceAfterUpdateState(dt_publishing_queue, FALSE,
                         data_for_alerting, data_for_saving)} :
       \E sent \in {SendData(queue, confirmed)} :
          /\ confirmed <= Len(queue)
          /\ dtState' = [dtState EXCEPT ![raw.system_id] =
                            Some(UpdateState(system, transformed))]
          /\ dt_publishing_queue' = sent.queue
          /\ dtStore' = SaveAll(dtStore, sent.published)
          /\ dtFirstDown' =
                [dtFirstDown EXCEPT ![raw.system_id] =
                    FirstDownAfter(IF dtState[raw.system_id] = None
                                   THEN system.went_down_at
                                   ELSE dtFirstDown[raw.system_id], raw)]
          /\ dtRun' = [op |-> "processed", raw |-> raw,
                       first_sight |-> dtState[raw.system_id] = None,
                       stored |-> IF dtState[raw.system_id] = None /\ redis_online
                                  THEN dtStore[raw.system_id] ELSE None,
                       previous |-> system,
                       transformed |-> transformed,
                       data_for_alerting |-> data_for_alerting,
                       data_for_saving |-> data_for_saving,
                       send_raised |-> sent.raised,
                       published |-> sent.published,
                       heartbeat |-> DTSendsHeartbeat(FALSE, sent.raised)]
    /\ dtProcessed' = dtProcessed + 1
    /\ UNCHANGED notDT

\* _process_raw_data on a message that is neither a result nor an error, or
\* that lacks a key of its envelope: the exception is caught, the message is
\* acknowledged and dropped, and the queue sent all the same.
DTDropRawData(raw, confirmed) ==
    /\ dtProcessed < MaxMessages
    /\ raw.time = dtProcessed + 1
    /\ raw.kind \in {"unexpected", "missing_keys"}
    /\ confirmed <= Len(dt_publishing_queue)
    /\ \E sent \in {SendData(dt_publishing_queue, confirmed)} :
          /\ dt_publishing_queue' = sent.queue
          /\ dtStore' = SaveAll(dtStore, sent.published)
          /\ dtRun' = [op |-> "dropped", raw |-> raw,
                       state_before |-> dtState,
                       queue_before |-> dt_publishing_queue,
                       acknowledged |-> TRUE,
                       send_raised |-> sent.raised,
                       published |-> sent.published,
                       heartbeat |-> DTSendsHeartbeat(TRUE, sent.raised)]
    /\ dtProcessed' = dtProcessed + 1
    /\ UNCHANGED <<dtState, dtFirstDown>>
    /\ UNCHANGED notDT

\* _process_raw_data on a result or an error of a system the state holds,
\* with _update_state raising: the exception is caught, the message is
\* acknowledged, nothing is placed on the queue for it, the queue is sent
\* all the same and no heartbeat follows.
DTUpdateStateRaises(raw, confirmed) ==
    /\ dtProcessed < MaxMessages
    /\ raw.time = dtProcessed + 1
    /\ raw.kind \in {"result", "error"}
    /\ dtState[raw.system_id] # None
    /\ \E system \in {dtState[raw.system_id][1]} :
       \E transformed \in {TransformData(system, raw)} :
       \E queue \in {PlaceAfterUpdateState(dt_publishing_queue, TRUE,
                         DataForAlerting(system, transformed),
                         DataForSaving(transformed))} :
       \E sent \in {SendData(queue, confirmed)} :
          /\ confirmed <= Len(queue)
          /\ dt_publishing_queue' = sent.queue
          /\ dtStore' = SaveAll(dtStore, sent.published)
          /\ dtRun' = [op |-> "update_raised", raw |-> raw,
                       state_before |-> dtState,
                       queue_before |-> dt_publishing_queue,
                       acknowledged |-> TRUE,
                       send_raised |-> sent.raised,
                       published |-> sent.published,
                       heartbeat |-> DTSendsHeartbeat(TRUE, sent.raised)]
    /\ dtProcessed' = dtProcessed + 1
    /\ UNCHANGED <<dtState, dtFirstDown>>
    /\ UNCHANGED notDT

\* The transformer's process is restarted: its state and its publishing queue
\* start empty, the store keeps what it holds.
DTRestart ==
    /\ \E id \in SystemIds : dtState[id] # None
    /\ dtState' = [id \in SystemIds |-> None]
    /\ dt_publishing_queue' = <<>>
    /\ dtFirstDown' = [id \in SystemIds |-> None]
    /\ dtRun' = NoRun
    /\ UNCHANGED <<dtStore, dtProcessed>>
    /\ UNCHANGED notDT

-----------------------------------------------------------------------------
(* ChainlinkAlertsConfigsFactory *)

ChainNames == {"chain_1", "chain_2"}
ParentIds == {"parent_1", "parent_2"}

\* The alert names the constructor of ChainlinkNodeAlertsConfig reads from the
\* filtered sections; two of the twelve stand for all of them.
RequiredNames == {"node_is_down", "eth_balance_amount"}

\* The keys of sent_configs: n stands for the section name str(n).
Sections == 1..MaxSections

\* One section of an alerts configuration.
SubRecords == [parent_id : ParentIds, name : RequiredNames]

\* Every sent_configs: a dict from some of the section names to sections.
SentConfigs == UNION {[keys -> SubRecords] : keys \in SUBSET Sections}

\* config_exists
ConfigExists(configs, chain_name) == configs[chain_name] # None

\* The loop that builds `filtered`: the sections by name, a later section
\* replacing an earlier one of the same name.
Filtered(sent_configs, name) ==
    LET keys == {k \in DOMAIN sent_configs : sent_configs[k].name = name}
    IN  IF keys = {} THEN None
        ELSE Some(sent_configs[CHOOSE k \in keys : \A j \in keys : j <= k])

\* The check of add_new_config's first loop: some section's parent_id is not
\* the one of section '1'.
ParentIdsMissMatch(sent_configs) ==
    \E k \in DOMAIN sent_configs :
        sent_configs[k].parent_id # sent_configs[1].parent_id

\* add_new_config dropping the chain's config before it checks the sections.
AddNewConfigDropsFirst(configs, chain_name, sent_configs) ==
    LET dropped == [configs EXCEPT ![chain_name] = None]
    IN  IF 1 \notin DOMAIN sent_configs
        THEN [configs |-> dropped, outcome |-> "KeyError"]
        ELSE IF ParentIdsMissMatch(sent_configs)
        THEN [configs |-> dropped,
              outcome |-> "ParentIdsMissMatchInAlertsConfiguration"]
        ELSE IF \E n \in RequiredNames : Filtered(sent_configs, n) = None
        THEN [configs |-> dropped, outcome |-> "KeyError"]
        ELSE [configs |-> [configs EXCEPT ![chain_name] =
                              Some([parent_id |-> sent_configs[1].parent_id,
                                    alerts |-> [n \in RequiredNames |->
                                                  Filtered(sent_configs, n)[1]]])],
              outcome |-> "returned",
              config_updated |-> ConfigExists(configs, chain_name),
              parent_id |-> sent_configs[1].parent_id]

\* add_new_config: the configs after the call, how the call ended, and the
\* pair it returns when it returns.
AddNewConfig(configs, chain_name, sent_configs) ==
    IF 1 \notin DOMAIN sent_configs
    THEN [configs |-> configs, outcome |-> "KeyError"]
    ELSE IF ParentIdsMissMatch(sent_configs)
    THEN [configs |-> configs,
          outcome |-> "ParentIdsMissMatchInAlertsConfiguration"]
    ELSE IF \E n \in RequiredNames : Filtered(sent_configs, n) = None
    THEN [configs |-> configs, outcome |-> "KeyError"]
    ELSE [configs |-> [configs EXCEPT ![chain_name] =
                          Some([parent_id |-> sent_configs[1].parent_id,
                                alerts |-> [n \in RequiredNames |->
                                              Filtered(sent_configs, n)[1]]])],
          outcome |-> "returned",
          config_updated |-> ConfigExists(configs, chain_name),
          parent_id |-> sent_configs[1].parent_id]

\* A call of add_new_config.
FactoryAddNewConfig(chain_name, sent_configs) ==
    /\ \E res \in {AddNewConfig(factory_configs, chain_name, sent_configs)} :
          /\ factory_configs' = res.configs
          /\ factoryRun' = [op |-> "add_new_config", chain_name |-> chain_name,
                            parent_ids |->
                                [k \in DOMAIN sent_configs |->
                                    sent_configs[k].parent_id],
                            before |-> factory_configs,
                            outcome |-> res.outcome]
    /\ UNCHANGED notFactory

\* remove_config
FactoryRemoveConfig(chain_name) ==
    /\ factory_configs' =
          IF ConfigExists(factory_configs, chain_name)
          THEN [factory_configs EXCEPT ![chain_name] = None]
          ELSE factory_configs
    /\ factoryRun' = [op |-> "remove_config", chain_name |-> chain_name,
                      before |-> factory_configs]
    /\ UNCHANGED notFactory

-----------------------------------------------------------------------------
(* ChainlinkContractsMonitor._monitor *)

\* The node configs the monitor is given, in their order.
NodeOrder == <<"node_1", "node_2">>
NodeIds == {NodeOrder[i] : i \in DOMAIN NodeOrder}
AddressOf(node_id) == <<"address", node_id>>

\* The catalogs the contracts url may return, by version; 0 is the empty list
\* the monitor starts with.
CatalogVersions == {1, 2}

\* _get_nodes_address: the addresses of the nodes whose prometheus yields one,
\* and whether some node yielded none.
GetNodesAddress(found) ==
    [node_address |-> [n \in found |-> AddressOf(n)],
     error_occurred |-> found # NodeIds]

\* The addresses of the failed refresh merged into the ones known before.
StoreNodesAddressesKeepingStale(stored, retrieved) ==
    [n \in (DOMAIN stored) \cup (DOMAIN retrieved) |->
        IF n \in DOMAIN retrieved THEN retrieved[n] ELSE stored[n]]

\* _store_nodes_addresses: the dict retrieved replaces the stored one.
StoreNodesAddresses(stored, retrieved) == retrieved

\* The catalog limiter with did_task() called whether the fetch raised or not.
WeiWatchersGateAlwaysAdvanced(can_do_task, fetch_raised) ==
    IF can_do_task THEN FALSE ELSE can_do_task

\* The catalog limiter after the first block of _monitor: did_task() is
\* reached only when the fetch did not raise.
WeiWatchersGateAfter(can_do_task, fetch_raised) ==
    IF can_do_task /\ ~fetch_raised THEN FALSE ELSE can_do_task

\* The address limiter after the second block of _monitor: did_task() is
\* called only when every node yielded an address.
AddressGateAfter(can_do_task, error_occurred) ==
    IF can_do_task /\ ~error_occurred THEN FALSE ELSE can_do_task

\* _filter_contracts_by_node: the contracts of every node that has an
\* address, out of the stored catalog.
FilterContractsByNode(catalog, addresses) ==
    [node_ids |-> DOMAIN addresses, catalog |-> catalog]

\* _process_retrieved_data of what _get_data returns: {} for a node that is
\* not in node_contracts.
ProcessRetrievedData(node_id, contracts) ==
    [kind |-> "result", node_id |-> node_id,
     data |-> IF node_id \in contracts.node_ids THEN contracts.catalog ELSE 0]

\* _process_error
ProcessError(code) == [kind |-> "error", code |-> code]

\* The loop over the nodes left at the first node whose retrieval raises.
RECURSIVE CollectUntilRaise(_, _, _, _)
CollectUntilRaise(order, addresses, contracts, raising) ==
    IF order = <<>> THEN <<>>
    ELSE IF Head(order) \in DOMAIN addresses /\ Head(order) \in raising
    THEN <<>>
    ELSE (IF Head(order) \in DOMAIN addresses
          THEN <<ProcessRetrievedData(Head(order), contracts)>> ELSE <<>>)
         \o CollectUntilRaise(Tail(order), addresses, contracts, raising)

\* The loop over node_address.items(): the data messages sent, one per node
\* whose _get_data does not raise a data-source exception.
RECURSIVE CollectAll(_, _, _, _)
CollectAll(order, addresses, contracts, raising) ==
    IF order = <<>> THEN <<>>
    ELSE (IF Head(order) \in DOMAIN addresses /\ Head(order) \notin raising
          THEN <<ProcessRetrievedData(Head(order), contracts)>> ELSE <<>>)
         \o CollectAll(Tail(order), addresses, contracts, raising)

\* One error payload per node config.
ErrorPayloadPerNode(data_retrieval_failed, selected) ==
    IF data_retrieval_failed
    THEN [i \in DOMAIN NodeOrder |->
            ProcessError("CouldNotRetrieveContractsException")]
    ELSE IF ~selected
    THEN [i \in DOMAIN NodeOrder |->
            ProcessError("NoSyncedDataSourceWasAccessibleException")]
    ELSE <<>>

\* The error payload of a tick whose retrieval failed as a whole: the catalog
\* could not be fetched, or no synced EVM node was selected.
ErrorPayload(data_retrieval_failed, selected) ==
    IF data_retrieval_failed
    THEN <<ProcessError("CouldNotRetrieveContractsException")>>
    ELSE IF ~selected
    THEN <<ProcessError("NoSyncedDataSourceWasAccessibleException")>>
    ELSE <<>>

\* A heartbeat only after a tick without any error.
HeartbeatOnlyWithoutError(data_retrieval_failed, selected, raised) ==
    ~data_retrieval_failed /\ selected /\ raised = {}

\* The end of _monitor: the heartbeat is sent after the data or the error
\* payload, whatever the tick retrieved.
SendsHeartbeat(data_retrieval_failed, selected, raised) == TRUE

\* What a round hands to the broker, in order, when no publication fails:
\* its payloads, then the heartbeat.
Publications(sent, heartbeat) ==
    sent \o (IF heartbeat THEN <<[kind |-> "heartbeat"]>> ELSE <<>>)

\* A round that goes on after a publication that failed.
PublishedBesidesFailing(sent, heartbeat, failing) ==
    LET all == Publications(sent, heartbeat)
    IN  SubSeq(all, 1, failing - 1) \o SubSeq(all, failing + 1, Len(all))

\* What the broker has confirmed when _monitor returns or raises: _send_data
\* and _send_heartbeat raise when the publication fails, and nothing in
\* _monitor catches it. failing is the publication that fails, 0 for none.
Published(sent, heartbeat, failing) ==
    IF failing = 0
    THEN Publications(sent, heartbeat)
    ELSE SubSeq(Publications(sent, heartbeat), 1, failing - 1)

\* One run of _monitor. fetched is the catalog the contracts url returns, 0
\* when the request raises; found are the nodes whose prometheus yields an
\* address; selected tells whether some EVM node is connected and synced;
\* raising are the nodes whose _get_data raises a data-source exception;
\* failing is the publication of the round that the broker fails, 0 for
\* none. sent and heartbeat are the payloads of the round and its heartbeat
\* as the round publishes them when the broker confirms every publication.
MonMonitor(fetched, found, selected, filter_raises, raising, failing) ==
    \* the inputs that this run does not read are fixed
    /\ ~wei_watchers_can_do_task => fetched = 1
    /\ ~address_can_do_task => found = NodeIds
    /\ (wei_watchers_can_do_task /\ fetched = 0) => selected
    /\ ~selected => (~filter_raises /\ raising = {})
    /\ \E fetch_raised \in {wei_watchers_can_do_task /\ fetched = 0} :
       \E catalog \in {IF wei_watchers_can_do_task /\ fetched # 0
                       THEN fetched ELSE contracts_data} :
       \E got \in {GetNodesAddress(found)} :
       \E addresses \in {IF address_can_do_task
                         THEN StoreNodesAddresses(node_address, got.node_address)
                         ELSE node_address} :
       \E re_filter \in {(wei_watchers_can_do_task /\ ~fetch_raised)
                            \/ address_can_do_task} :
       \E collecting \in {~fetch_raised /\ selected} :
       \E contracts \in {IF collecting /\ re_filter /\ ~filter_raises
                         THEN FilterContractsByNode(catalog, addresses)
                         ELSE node_contracts} :
       \E raised \in {IF collecting THEN raising \cap DOMAIN addresses ELSE {}} :
       \E sent \in {IF collecting
                    THEN CollectAll(NodeOrder, addresses, contracts, raising)
                    ELSE ErrorPayload(fetch_raised, selected)} :
          /\ ~(collecting /\ re_filter) => ~filter_raises
          /\ raising = raised
          /\ failing <= Len(sent) + 1
          /\ contracts_data' = catalog
          /\ wei_watchers_can_do_task' =
                WeiWatchersGateAfter(wei_watchers_can_do_task, fetch_raised)
          /\ node_address' = addresses
          /\ address_can_do_task' =
                AddressGateAfter(address_can_do_task, got.error_occurred)
          /\ node_contracts' = contracts
          /\ monTick' =
                [op |-> "monitor",
                 fetch_attempted |-> wei_watchers_can_do_task,
                 fetch_raised |-> fetch_raised,
                 address_attempted |-> address_can_do_task,
                 error_occurred |-> address_can_do_task /\ got.error_occurred,
                 retrieved |-> IF address_can_do_task
                               THEN got.node_address ELSE <<>>,
                 select_called |-> ~fetch_raised,
                 collecting |-> collecting,
                 raised |-> raised,
                 sent |-> sent,
                 heartbeat |-> SendsHeartbeat(fetch_raised, selected, raised),
                 failing |-> failing,
                 published |->
                    Published(sent,
                              SendsHeartbeat(fetch_raised, selected, raised),
                              failing),
                 before |-> [contracts_data |-> contracts_data,
                             node_address |-> node_address,
                             wei_watchers_can_do_task |-> wei_watchers_can_do_task,
                             address_can_do_task |-> address_can_do_task]]
    /\ UNCHANGED notMon

\* The period of a limiter has elapsed since its last did_task().
MonPeriodElapsed(limiter) ==
    /\ \/ /\ limiter = "wei_watchers"
          /\ ~wei_watchers_can_do_task
          /\ wei_watchers_can_do_task' = TRUE
          /\ UNCHANGED address_can_do_task
       \/ /\ limiter = "address"
          /\ ~address_can_do_task
          /\ address_can_do_task' = TRUE
          /\ UNCHANGED wei_watchers_can_do_task
    /\ UNCHANGED <<contracts_data, node_address, node_contracts, monTick>>
    /\ UNCHANGED notMon

-----------------------------------------------------------------------------
(* GithubAlerter *)

\* The messages of the alerter's input queue, by what _process_data reads of
\* them: a result, without or with a new release; a result whose data lacks
\* no_of_releases; an error of each code; a message with neither key. The
\* meta_data of a result holds last_monitored, that of an error holds time.
DataKinds == {"result", "result_new_release", "result_without_releases",
              "error_cannot_access", "error_api_call", "error_other",
              "unexpected"}

RepoIds == {"repo_1", "repo_2"}

DeliveryTags == 1..MaxDeliveries

\* alert.alert_data: the alert's code and the repository it is about.
GithubAlert(alert_code, origin_id) ==
    [alert_code |-> alert_code, origin_id |-> origin_id]

\* Mutant: a result leaves the two flags as they were.
ResultBranchKeepsFlags(kind, repo_id, cannot_access, api_error) ==
    [cannot_access_github_page |-> cannot_access,
     api_call_error |-> api_error,
     data_for_alerting |->
         (IF cannot_access
          THEN <<GithubAlert("GitHubPageNowAccessibleAlert", repo_id)>>
          ELSE <<>>)
         \o (IF api_error
             THEN <<GithubAlert("GitHubAPICallErrorResolvedAlert", repo_id)>>
             ELSE <<>>)
         \o (IF kind = "result_new_release"
             THEN <<GithubAlert("NewGitHubReleaseAlert", repo_id)>>
             ELSE <<>>),
     processing_error |-> kind = "result_without_releases"]

\* The branch of a result: a flag that is set is reset and its resolution
\* alert classified, then the releases are read, which raises when the data
\* lacks them, and a new release is alerted on.
ResultBranch(kind, repo_id, cannot_access, api_error) ==
    [cannot_access_github_page |-> FALSE,
     api_call_error |-> FALSE,
     data_for_alerting |->
         (IF cannot_access
          THEN <<GithubAlert("GitHubPageNowAccessibleAlert", repo_id)>>
          ELSE <<>>)
         \o (IF api_error
             THEN <<GithubAlert("GitHubAPICallErrorResolvedAlert", repo_id)>>
             ELSE <<>>)
         \o (IF kind = "result_new_release"
             THEN <<GithubAlert("NewGitHubReleaseAlert", repo_id)>>
             ELSE <<>>),
     processing_error |-> kind = "result_without_releases"]

\* The branch of an error. The first test is on the cannot-access code; when
\* the code is another one and the cannot-access flag is set, the resolution
\* alert is built from meta_data['last_monitored'], which the meta_data of an
\* error does not hold: the KeyError ends the try block before anything is
\* classified or reset. The second test is on the API-call code.
ErrorBranch(kind, repo_id, cannot_access, api_error) ==
    IF kind # "error_cannot_access" /\ cannot_access
    THEN [cannot_access_github_page |-> cannot_access,
          api_call_error |-> api_error,
          data_for_alerting |-> <<>>,
          processing_error |-> TRUE]
    ELSE [cannot_access_github_page |-> kind = "error_cannot_access",
          api_call_error |-> kind = "error_api_call",
          data_for_alerting |->
              (IF kind = "error_cannot_access"
               THEN <<GithubAlert("CannotAccessGitHubPageAlert", repo_id)>>
               ELSE <<>>)
              \o (IF kind = "error_api_call"
                  THEN <<GithubAlert("GitHubAPICallErrorAlert", repo_id)>>
                  ELSE IF api_error
                  THEN <<GithubAlert("GitHubAPICallErrorResolvedAlert",
                                     repo_id)>>
                  ELSE <<>>),
          processing_error |-> FALSE]

\* The try block of _process_data: the alerts classified, the two flags of
\* the repository afterwards, and whether an exception was caught. A flag of
\* a repository not seen yet is created False, which is its value here.
ClassifyData(kind, repo_id, cannot_access, api_error) ==
    CASE kind \in {"result", "result_new_release",
                   "result_without_releases"} ->
            ResultBranch(kind, repo_id, cannot_access, api_error)
      [] kind \in {"error_cannot_access", "error_api_call", "error_other"} ->
            ErrorBranch(kind, repo_id, cannot_access, api_error)
      [] OTHER ->
            [cannot_access_github_page |-> cannot_access,
             api_call_error |-> api_error,
             data_for_alerting |-> <<>>,
             processing_error |-> TRUE]

\* History: the conditions of a repository for which an error alert was
\* classified and no resolution alert since, after the given alerts.
UnresolvedAfter(open, data_for_alerting) ==
    LET codes == {data_for_alerting[i].alert_code :
                     i \in DOMAIN data_for_alerting}
    IN  ((open \cup (IF "CannotAccessGitHubPageAlert" \in codes
                     THEN {"cannot_access"} ELSE {})
               \cup (IF "GitHubAPICallErrorAlert" \in codes
                     THEN {"api_call"} ELSE {}))
         \ (IF "GitHubPageNowAccessibleAlert" \in codes
            THEN {"cannot_access"} ELSE {}))
        \ (IF "GitHubAPICallErrorResolvedAlert" \in codes
           THEN {"api_call"} ELSE {})

\* Mutant: every alert is appended, whatever the size of the queue.
PlaceAlertsUnbounded(queue, data_list) == queue \o data_list

\* _place_latest_data_on_queue: each alert goes to the end of the publishing
\* queue, the oldest message making room when the queue is full.
RECURSIVE PlaceAlertsOnQueue(_, _)
PlaceAlertsOnQueue(queue, data_list) ==
    IF data_list = <<>>
    THEN queue
    ELSE PlaceAlertsOnQueue(PushToQueue(queue, Head(data_list)),
                            Tail(data_list))

\* What a publication raises when the broker does not take it.
SendExceptions == {"MessageWasNotDelivered", "AMQPConnectionError",
                   "AMQPChannelError", "Exception"}

\* Mutant: a message whose processing raised is not acknowledged.
BasicAckIfProcessed(acks, tag, processing_error) ==
    IF processing_error THEN acks ELSE [acks EXCEPT ![tag] = @ + 1]

\* rabbitmq.basic_ack(method.delivery_tag, False), which _process_data
\* reaches whether or not the processing raised.
BasicAck(acks, tag, processing_error) == [acks EXCEPT ![tag] = @ + 1]

\* Mutant: the message is acknowledged at the end of the callback.
CallbackTraceAckLast(placed, published, send_raised, heartbeat) ==
    <<"process">>
    \o (IF placed THEN <<"place">> ELSE <<>>)
    \o [i \in 1..published |-> "publish"]
    \o (IF send_raised THEN <<"publish_raises">> ELSE <<>>)
    \o (CASE heartbeat = "none" -> <<>>
          [] heartbeat = "delivered" -> <<"heartbeat">>
          [] OTHER -> <<"heartbeat_raises">>)
    \o <<"ack">>

\* The steps of _process_data in the order of its statements: the try block,
\* the placing on the queue, the acknowledgement, the publications of
\* _send_data and the heartbeat.
CallbackTrace(placed, published, send_raised, heartbeat) ==
    <<"process">>
    \o (IF placed THEN <<"place">> ELSE <<>>)
    \o <<"ack">>
    \o [i \in 1..published |-> "publish"]
    \o (IF send_raised THEN <<"publish_raises">> ELSE <<>>)
    \o (CASE heartbeat = "none" -> <<>>
          [] heartbeat = "delivered" -> <<"heartbeat">>
          [] OTHER -> <<"heartbeat_raises">>)

\* Mutant: the heartbeat is sent after a processing error too.
HeartbeatDespiteProcessingError(processing_error, send_raised, hb) ==
    IF ~send_raised THEN hb ELSE "none"

\* The heartbeat of _process_data: sent when _send_data raised nothing and the
\* processing raised nothing, with the result hb of its publication; "none"
\* when it is not sent.
HeartbeatResult(processing_error, send_raised, hb) ==
    IF ~send_raised /\ ~processing_error THEN hb ELSE "none"

\* _process_data on a delivered message. confirmed is how many publications
\* of _send_data the broker confirms, exc what the first unconfirmed one
\* raises, hb what the publication of the heartbeat does. MessageWasNotDelivered
\* is logged; any other exception leaves the callback.
ProcessData(msg, cannot_access, api_error, queue, acks, confirmed, exc, hb) ==
    LET c == ClassifyData(msg.kind, msg.repo_id, cannot_access[msg.repo_id],
                          api_error[msg.repo_id])
        placed == PlaceAlertsOnQueue(queue, c.data_for_alerting)
        sent == SendData(placed, confirmed)
        heartbeat == HeartbeatResult(c.processing_error, sent.raised, hb)
        raised == IF sent.raised THEN exc
                  ELSE IF heartbeat \in SendExceptions THEN heartbeat
                  ELSE "none"
    IN  [cannot_access_github_page |->
             [cannot_access EXCEPT ![msg.repo_id] =
                 c.cannot_access_github_page],
         api_call_error |->
             [api_error EXCEPT ![msg.repo_id] = c.api_call_error],
         queue |-> sent.queue,
         acks |-> BasicAck(acks, msg.tag, c.processing_error),
         run |-> [op |-> "process_data", tag |-> msg.tag, kind |-> msg.kind,
                  repo_id |-> msg.repo_id,
                  processing_error |-> c.processing_error,
                  data_for_alerting |-> c.data_for_alerting,
                  published |-> sent.published,
                  trace |-> CallbackTrace(c.data_for_alerting # <<>>,
                                          Len(sent.published), sent.raised,
                                          heartbeat),
                  send_raised |-> sent.raised,
                  heartbeat |-> heartbeat,
                  raised |-> raised,
                  outcome |-> IF raised \in {"none", "MessageWasNotDelivered"}
                              THEN "returned" ELSE raised,
                  acks_before |-> acks[msg.tag]]]

\* The broker delivers the next message of the input queue. A message with
\* neither key names no repository.
AlerterDeliver(kind, repo_id) ==
    /\ delivered < MaxDeliveries
    /\ kind = "unexpected" => repo_id = "repo_1"
    /\ delivered' = delivered + 1
    /\ alerter_input' = Append(alerter_input,
                               [tag |-> delivered + 1, kind |-> kind,
                                repo_id |-> repo_id])
    /\ UNCHANGED <<cannot_access_github_page, api_call_error,
                   alerter_publishing_queue, ack_count, unresolved,
                   alerterRun>>
    /\ UNCHANGED notAlerter

\* The callback runs on the oldest delivered message.
AlerterProcessData(confirmed, exc, hb) ==
    /\ alerter_input # <<>>
    /\ \E res \in {ProcessData(Head(alerter_input), cannot_access_github_page,
                               api_call_error, alerter_publishing_queue,
                               ack_count, confirmed, exc, hb)} :
          /\ confirmed <= Len(res.queue) + Len(res.run.published)
          /\ ~res.run.send_raised => exc = "MessageWasNotDelivered"
          /\ res.run.heartbeat = "none" => hb = "delivered"
          /\ cannot_access_github_page' = res.cannot_access_github_page
          /\ api_call_error' = res.api_call_error
          /\ alerter_publishing_queue' = res.queue
          /\ ack_count' = res.acks
          /\ unresolved' =
                [unresolved EXCEPT ![res.run.repo_id] =
                    UnresolvedAfter(@, res.run.data_for_alerting)]
          /\ alerterRun' =
                [unresolved_before |-> unresolved[res.run.repo_id]] @@ res.run
    /\ alerter_input' = Tail(alerter_input)
    /\ UNCHANGED delivered
    /\ UNCHANGED notAlerter

-----------------------------------------------------------------------------
(* The config manager (src/alerter/src/config_manager/config_manager.py) *)

\* self.rabbitmq publishes the configs, self._heartbeat_rabbit serves the
\* pings.
Adapters == {"rabbitmq", "_heartbeat_rabbit"}
\* The thread that runs start() and the signal handler, and the thread that
\* runs _sending_configs_thread.
Threads == {"main", "sending_configs"}
\* What a publication or a sleep on the config adapter ends with.
CfgOutcomes == {"ok", "MessageWasNotDelivered", "AMQPConnectionError",
                "AMQPChannelError", "Exception"}

\* The history, once `thread` has called a method of the adapters in `used`.
TouchedBy(thread, used, threads) ==
    [a \in Adapters |->
        IF a \in used THEN threads[a] \cup {thread} ELSE threads[a]]

\* _connect_to_rabbit, run by `thread`: connects both adapters unless the
\* flag says they are connected.
ConnectToRabbit(thread, flag, conn, threads) ==
    IF ~flag
    THEN [flag |-> TRUE, conn |-> [a \in Adapters |-> TRUE],
          threads |-> TouchedBy(thread, Adapters, threads)]
    ELSE [flag |-> flag, conn |-> conn, threads |-> threads]

\* disconnect_from_rabbit, run by `thread`.
DisconnectFromRabbit(thread, flag, conn, threads) ==
    IF flag
    THEN [flag |-> FALSE, conn |-> [a \in Adapters |-> FALSE],
          threads |-> TouchedBy(thread, Adapters, threads)]
    ELSE [flag |-> flag, conn |-> conn, threads |-> threads]

\* _initialise_rabbitmq, run by `thread`: connects, then declares the
\* exchanges on both adapters and the queue and the consumer on the
\* heartbeat adapter.
InitialiseRabbitmq(thread, flag, conn, threads) ==
    LET c == ConnectToRabbit(thread, flag, conn, threads)
    IN  [c EXCEPT !.threads = TouchedBy(thread, Adapters, c.threads)]

\* One call of the helper thread on the config adapter, and the handler of
\* what it raised: where the thread goes, the flag, the adapters.
SendingConfigsStep(outcome, next, flag, conn, threads) ==
    LET used == TouchedBy("sending_configs", {"rabbitmq"}, threads)
    IN  CASE outcome = "AMQPConnectionError" ->
                [pc |-> "reconnecting", flag |-> FALSE,
                 conn |-> [conn EXCEPT !["rabbitmq"] = FALSE],
                 threads |-> used]
          [] outcome = "AMQPChannelError" ->
                [pc |-> "ended"]
                    @@ InitialiseRabbitmq("sending_configs", flag, conn, used)
          [] outcome = "Exception" ->
                [pc |-> "loop", flag |-> flag, conn |-> conn,
                 threads |-> used]
          [] OTHER ->
                [pc |-> next, flag |-> flag, conn |-> conn, threads |-> used]

\* start() up to the observer's start: initialises the broker, starts the
\* helper thread, queues every config file and starts the observer.
CfgStart(first_run) ==
    /\ cfg_main_thread = "stopped"
    /\ \E c \in {InitialiseRabbitmq("main", connected_to_rabbit,
                                    adapter_connected, adapter_threads)} :
          /\ connected_to_rabbit' = c.flag
          /\ adapter_connected' = c.conn
          /\ adapter_threads' = c.threads
    /\ sending_configs_thread' = "loop"
    /\ config_publishing_queue' = first_run
    /\ watching' = TRUE
    /\ cfg_main_thread' = "started"
    /\ UNCHANGED notCfg

\* The end of start(): _connect_to_rabbit once more, then _listen_for_data
\* consumes the pings on the heartbeat adapter.
CfgListenForData ==
    /\ cfg_main_thread = "started"
    /\ \E c \in {ConnectToRabbit("main", connected_to_rabbit,
                                 adapter_connected, adapter_threads)} :
          /\ connected_to_rabbit' = c.flag
          /\ adapter_connected' = c.conn
          /\ adapter_threads' =
                TouchedBy("main", {"_heartbeat_rabbit"}, c.threads)
    /\ cfg_main_thread' = "listening"
    /\ UNCHANGED <<sending_configs_thread, config_publishing_queue, watching>>
    /\ UNCHANGED notCfg

\* _on_event_thrown, on the observer's thread: a changed config file is queued.
CfgOnEventThrown ==
    /\ watching
    /\ config_publishing_queue < MaxConfigs
    /\ config_publishing_queue' = config_publishing_queue + 1
    /\ UNCHANGED <<cfg_main_thread, sending_configs_thread,
                   connected_to_rabbit, adapter_connected, watching,
                   adapter_threads>>
    /\ UNCHANGED notCfg

\* _sending_configs_thread, the first half of a turn of its loop: _send_data
\* when the queue is not empty.
CfgSendData(outcome) ==
    /\ sending_configs_thread = "loop"
    /\ IF config_publishing_queue = 0
       THEN /\ outcome = "ok"
            /\ sending_configs_thread' = "sleep"
            /\ UNCHANGED <<connected_to_rabbit, adapter_connected,
                           adapter_threads, config_publishing_queue>>
       ELSE /\ ~adapter_connected["rabbitmq"]
                    => outcome = "AMQPConnectionError"
            /\ \E r \in {SendingConfigsStep(outcome, "sleep",
                            connected_to_rabbit, adapter_connected,
                            adapter_threads)} :
                  /\ sending_configs_thread' = r.pc
                  /\ connected_to_rabbit' = r.flag
                  /\ adapter_connected' = r.conn
                  /\ adapter_threads' = r.threads
            /\ config_publishing_queue' =
                  IF outcome = "ok" THEN 0 ELSE config_publishing_queue
    /\ UNCHANGED <<cfg_main_thread, watching>>
    /\ UNCHANGED notCfg

\* _sending_configs_thread, the second half of a turn: the sleep on the
\* config adapter's connection when the flag says it is connected.
CfgConnectionSleep(outcome) ==
    /\ sending_configs_thread = "sleep"
    /\ outcome # "MessageWasNotDelivered"
    /\ IF ~connected_to_rabbit
       THEN /\ outcome = "ok"
            /\ sending_configs_thread' = "loop"
            /\ UNCHANGED <<connected_to_rabbit, adapter_connected,
                           adapter_threads>>
       ELSE /\ ~adapter_connected["rabbitmq"]
                    => outcome = "AMQPConnectionError"
            /\ \E r \in {SendingConfigsStep(outcome, "loop",
                            connected_to_rabbit, adapter_connected,
                            adapter_threads)} :
                  /\ sending_configs_thread' = r.pc
                  /\ connected_to_rabbit' = r.flag
                  /\ adapter_connected' = r.conn
                  /\ adapter_threads' = r.threads
    /\ UNCHANGED <<cfg_main_thread, watching, config_publishing_queue>>
    /\ UNCHANGED notCfg

\* _sending_configs_thread, the end of the connection error's handler: after
\* RE_INITIALISE_SLEEPING_PERIOD the helper thread calls _connect_to_rabbit.
CfgReconnect ==
    /\ sending_configs_thread = "reconnecting"
    /\ \E c \in {ConnectToRabbit("sending_configs", connected_to_rabbit,
                                 adapter_connected, adapter_threads)} :
          /\ connected_to_rabbit' = c.flag
          /\ adapter_connected' = c.conn
          /\ adapter_threads' = c.threads
    /\ sending_configs_thread' = "loop"
    /\ UNCHANGED <<cfg_main_thread, watching, config_publishing_queue>>
    /\ UNCHANGED notCfg

\* _on_terminate, its first step: stops and joins the observer.
CfgOnTerminate ==
    /\ cfg_main_thread = "listening"
    /\ watching' = FALSE
    /\ cfg_main_thread' = "disconnecting"
    /\ UNCHANGED <<sending_configs_thread, connected_to_rabbit,
                   adapter_connected, config_publishing_queue,
                   adapter_threads>>
    /\ UNCHANGED notCfg

\* _on_terminate, its second step: disconnect_from_rabbit.
CfgDisconnect ==
    /\ cfg_main_thread = "disconnecting"
    /\ \E d \in {DisconnectFromRabbit("main", connected_to_rabbit,
                                      adapter_connected, adapter_threads)} :
          /\ connected_to_rabbit' = d.flag
          /\ adapter_connected' = d.conn
          /\ adapter_threads' = d.threads
    /\ cfg_main_thread' = "joining"
    /\ UNCHANGED <<sending_configs_thread, config_publishing_queue, watching>>
    /\ UNCHANGED notCfg

\* terminate_and_stop_sending_configs_thread returns once the helper thread
\* has ended; _on_terminate then calls sys.exit().
CfgJoined ==
    /\ cfg_main_thread = "joining"
    /\ sending_configs_thread = "ended"
    /\ cfg_main_thread' = "exited"
    /\ UNCHANGED <<sending_configs_thread, connected_to_rabbit,
                   adapter_connected, config_publishing_queue, watching,
                   adapter_threads>>
    /\ UNCHANGED notCfg

-----------------------------------------------------------------------------
(* A worker's loops: start_monitor (src/alerter/src/monitors/starters.py)  *)
(* around Monitor.start (src/alerter/src/monitors/monitor.py)              *)

\* What _initialize_rabbitmq, a monitoring round or the period's sleep raises.
WorkerExceptions == {"none", "AMQPChannelError", "MessageWasNotDelivered",
                     "AMQPConnectionError", "Exception"}

\* start_monitor restarting the worker after a sleep whatever ended it.
StartMonitorAlwaysSleeps(raised, connected) ==
    [trace |-> <<"disconnect_from_rabbit", "log", "sleep">>,
     phase |-> "restart_sleep", connected |-> FALSE]

\* The except clauses of start_monitor: what the outer loop does with what
\* monitor.start() raised, where it goes, and the adapter.
StartMonitorExcept(raised, connected) ==
    IF raised \in {"AMQPConnectionError", "AMQPChannelError"}
    THEN [trace |-> <<"log">>, phase |-> "starting", connected |-> connected]
    ELSE [trace |-> <<"disconnect_from_rabbit", "log", "sleep">>,
          phase |-> "restart_sleep", connected |-> FALSE]

\* monitor.start() has raised: the outer loop handles it.
WorkerEnds(op, raised) ==
    \E h \in {StartMonitorExcept(raised, worker_connected)} :
        /\ worker_phase' = h.phase
        /\ worker_connected' = h.connected
        /\ workerRun' = [op |-> op, raised |-> raised, trace |-> h.trace,
                         ended |-> TRUE]

\* start_monitor calls monitor.start(), which initialises the broker first.
WorkerStart(raised) ==
    /\ worker_phase = "starting"
    /\ worker_starts < MaxStarts
    /\ raised \in {"none", "AMQPChannelError", "AMQPConnectionError",
                   "Exception"}
    /\ worker_starts' = worker_starts + 1
    /\ IF raised = "none"
       THEN /\ worker_phase' = "monitoring"
            /\ worker_connected' = TRUE
            /\ workerRun' = [op |-> "start", raised |-> raised,
                             trace |-> <<>>, ended |-> FALSE]
       ELSE WorkerEnds("start", raised)
    /\ UNCHANGED worker_rounds
    /\ UNCHANGED notWorker

\* One turn of the main loop of Monitor.start up to the sleep: _monitor and
\* the except clauses around it.
WorkerRound(raised) ==
    /\ worker_phase = "monitoring"
    /\ worker_rounds < MaxRounds
    /\ worker_rounds' = worker_rounds + 1
    /\ CASE raised = "AMQPChannelError" ->
                /\ worker_phase' = "monitoring"
                /\ workerRun' = [op |-> "round", raised |-> raised,
                                 trace |-> <<>>, ended |-> FALSE]
                /\ UNCHANGED worker_connected
         [] raised = "MessageWasNotDelivered" ->
                /\ worker_phase' = "period_sleep"
                /\ workerRun' = [op |-> "round", raised |-> raised,
                                 trace |-> <<"log">>, ended |-> FALSE]
                /\ UNCHANGED worker_connected
         [] raised = "none" ->
                /\ worker_phase' = "period_sleep"
                /\ workerRun' = [op |-> "round", raised |-> raised,
                                 trace |-> <<>>, ended |-> FALSE]
                /\ UNCHANGED worker_connected
         [] OTHER -> WorkerEnds("round", raised)
    /\ UNCHANGED worker_starts
    /\ UNCHANGED notWorker

\* The end of a turn of the main loop: the sleep of monitor_period on the
\* adapter's connection, outside the try.
WorkerPeriodSleep(raised) ==
    /\ worker_phase = "period_sleep"
    /\ raised \in {"none", "AMQPConnectionError"}
    /\ IF raised = "none"
       THEN /\ worker_phase' = "monitoring"
            /\ workerRun' = [op |-> "period_sleep", raised |-> raised,
                             trace |-> <<"sleep">>, ended |-> FALSE]
            /\ UNCHANGED worker_connected
       ELSE WorkerEnds("period_sleep", raised)
    /\ UNCHANGED <<worker_rounds, worker_starts>>
    /\ UNCHANGED notWorker

\* RESTART_SLEEPING_PERIOD is over: the outer loop turns.
WorkerRestartSleepOver ==
    /\ worker_phase = "restart_sleep"
    /\ worker_phase' = "starting"
    /\ workerRun' = [op |-> "restart_sleep", raised |-> "none",
                     trace |-> <<>>, ended |-> FALSE]
    /\ UNCHANGED <<worker_connected, worker_rounds, worker_starts>>
    /\ UNCHANGED notWorker

-----------------------------------------------------------------------------
Init ==
    /\ chainHead = 0
    /\ v3Events = <<>>
    /\ v3RoundData = [r \in RoundIds |-> NoRoundData]
    /\ last_block_monitored = [p \in Proxies |-> NULL]
    /\ last_round_observed = [p \in Proxies |-> NULL]
    /\ v3Tick = [status |-> "none", head |-> 0, first |-> 0,
                 historicalRounds |-> <<>>, lastRoundObserved |-> NULL,
                 current_block_height |-> 0, no_consensus |-> {},
                 pending_before |-> {}, last_round_before |-> NULL]
    /\ v3Pending = {}
    /\ v4Events = <<>>
    /\ transmitters = <<Operator, OtherOracle>>
    /\ v4Tick = [status |-> "none", head |-> 0, first |-> 0,
                 historicalRounds |-> <<>>, lastRoundObserved |-> NULL,
                 last_round_before |-> NULL, last_block_before |-> NULL,
                 node_transmitter_index |-> NULL, entries |-> {}]
    /\ alerter_process_dict = [name \in AlerterNames |-> "absent"]
    /\ publishing_queue = <<>>
    /\ mgrPhase = "stopped"
    /\ mgrRun = [op |-> "none", trace |-> <<>>, raised |-> FALSE,
                 heartbeat |-> NoHeartbeat, hb |-> "none", invoked |-> FALSE,
                 found_alive |-> {}, left_alive |-> {}]
    /\ resets_published = 0
    /\ child_starts = 0
    /\ child_exits = 0
    /\ not_delivered = 0
    /\ dtState = [id \in SystemIds |-> None]
    /\ dtStore = [id \in SystemIds |-> None]
    /\ dt_publishing_queue = <<>>
    /\ dtProcessed = 0
    /\ dtRun = NoRun
    /\ dtFirstDown = [id \in SystemIds |-> None]
    /\ factory_configs = [chain_name \in ChainNames |-> None]
    /\ factoryRun = NoRun
    /\ wei_watchers_can_do_task = TRUE
    /\ address_can_do_task = TRUE
    /\ contracts_data = 0
    /\ node_address = <<>>
    /\ node_contracts = [node_ids |-> {}, catalog |-> 0]
    /\ monTick = NoRun
    /\ cfg_main_thread = "stopped"
    /\ sending_configs_thread = "not_started"
    /\ connected_to_rabbit = FALSE
    /\ adapter_connected = [a \in Adapters |-> FALSE]
    /\ config_publishing_queue = 0
    /\ watching = FALSE
    /\ adapter_threads = [a \in Adapters |-> {}]
    /\ worker_phase = "starting"
    /\ worker_connected = FALSE
    /\ worker_rounds = 0
    /\ worker_starts = 0
    /\ workerRun = [op |-> "none", raised |-> "none", trace |-> <<>>,
                    ended |-> FALSE]
    /\ passed_blocks = {}
    /\ published_rounds = {}
    /\ filled_rounds = {}
    /\ dataRun = NoRun
    /\ alerter_input = <<>>
    /\ delivered = 0
    /\ cannot_access_github_page = [repo_id \in RepoIds |-> FALSE]
    /\ api_call_error = [repo_id \in RepoIds |-> FALSE]
    /\ unresolved = [repo_id \in RepoIds |-> {}]
    /\ alerter_publishing_queue = <<>>
    /\ ack_count = [tag \in DeliveryTags |-> 0]
    /\ alerterRun = NoRun

NextV3 ==
    \/ \E h \in 0..MaxBlock : V3Tick(h)
    \/ \E h \in 0..MaxBlock : V3TickRaises(h)
    \/ \E withEvent \in BOOLEAN, skip \in 1..2, settled \in BOOLEAN :
          V3MineBlock(withEvent, skip, settled)
    \/ \E r \in RoundIds : V3ReachConsensus(r)

SpecV3 == Init /\ [][NextV3]_vars

NextV4 ==
    \/ \E h \in 0..MaxBlock : V4Tick(h)
    \/ \E h \in 0..MaxBlock : V4TickSkips(h)
    \/ \E withEvent \in BOOLEAN, obs \in ObserverLists :
          V4MineBlock(withEvent, obs)
    \/ \E t \in TransmitterLists : V4SetConfig(t)

SpecV4 == Init /\ [][NextV4]_vars

HeartbeatOutcomes == {"delivered", "not_delivered", "error"}

NextMgr ==
    \/ \E confirmed \in 0..1 : MgrStart(confirmed)
    \/ \E confirmed \in 0..(MaxQueueSize + 1), hb \in HeartbeatOutcomes :
          MgrPing(confirmed, hb)
    \/ ChildExits

SpecMgr == Init /\ [][NextMgr]_vars

\* The raw messages a monitor sends at the given time.
RawMessages(time) ==
    {RawData("result", "", id, time, net, disk) :
        id \in SystemIds, net \in Metrics, disk \in Metrics}
    \cup {RawData("error", code, id, time, 0, 0) :
        id \in SystemIds, code \in {DOWNTIME_CODE, OTHER_CODE}}

\* The messages that are neither a result nor an error, and the results or
\* errors that lack a key.
UnexpectedMessages(time) ==
    {RawData(kind, "", id, time, 0, 0) :
        kind \in {"unexpected", "missing_keys"}, id \in SystemIds}

Times == 1..MaxMessages

NextDT ==
    \/ \E time \in Times, redis_online \in BOOLEAN,
          confirmed \in 0..(MaxQueueSize + 1) :
          \E raw \in RawMessages(time) :
             DTProcessRawData(raw, redis_online, confirmed)
    \/ \E time \in Times, confirmed \in 0..(MaxQueueSize + 1) :
          \E raw \in UnexpectedMessages(time) :
             DTDropRawData(raw, confirmed)
    \/ \E time \in Times, confirmed \in 0..(MaxQueueSize + 1) :
          \E raw \in RawMessages(time) :
             DTUpdateStateRaises(raw, confirmed)
    \/ DTRestart

SpecDT == Init /\ [][NextDT]_vars

NextFactory ==
    \/ \E chain_name \in ChainNames, sent_configs \in SentConfigs :
          FactoryAddNewConfig(chain_name, sent_configs)
    \/ \E chain_name \in ChainNames : FactoryRemoveConfig(chain_name)

SpecFactory == Init /\ [][NextFactory]_vars

NextMon ==
    \/ \E fetched \in CatalogVersions \cup {0}, found \in SUBSET NodeIds,
          selected \in BOOLEAN, filter_raises \in BOOLEAN,
          raising \in SUBSET NodeIds :
          MonMonitor(fetched, found, selected, filter_raises, raising, 0)
    \/ \E limiter \in {"wei_watchers", "address"} : MonPeriodElapsed(limiter)

SpecMon == Init /\ [][NextMon]_vars

\* The monitor with a broker that may fail one publication of a round; the
\* catalog has one version and the filtering does not raise.
NextMonBroker ==
    \/ \E fetched \in {0, 1}, found \in SUBSET NodeIds, selected \in BOOLEAN,
          raising \in SUBSET NodeIds, failing \in 0..(Len(NodeOrder) + 1) :
          MonMonitor(fetched, found, selected, FALSE, raising, failing)
    \/ \E limiter \in {"wei_watchers", "address"} : MonPeriodElapsed(limiter)

SpecMonBroker == Init /\ [][NextMonBroker]_vars

NextAlerter ==
    \/ \E kind \in DataKinds : AlerterDeliver(kind, "repo_1")
    \/ \E confirmed \in 0..MaxQueueSize, exc \in SendExceptions,
          hb \in {"delivered"} \cup SendExceptions : AlerterProcessData(confirmed, exc, hb)

SpecAlerter == Init /\ [][NextAlerter]_vars

\* The alerter on the messages of two repositories, every publication being
\* delivered or not delivered.
NextAlerterRepos ==
    \/ \E kind \in DataKinds, repo_id \in RepoIds :
          AlerterDeliver(kind, repo_id)
    \/ \E confirmed \in 0..MaxQueueSize :
          AlerterProcessData(confirmed, "MessageWasNotDelivered", "delivered")

SpecAlerterRepos == Init /\ [][NextAlerterRepos]_vars

\* The config manager: its main thread, its helper thread, the observer.
NextCfg ==
    \/ \E first_run \in 0..MaxConfigs : CfgStart(first_run)
    \/ CfgListenForData
    \/ CfgOnEventThrown
    \/ \E outcome \in CfgOutcomes : CfgSendData(outcome)
    \/ \E outcome \in CfgOutcomes : CfgConnectionSleep(outcome)
    \/ CfgReconnect
    \/ CfgOnTerminate
    \/ CfgDisconnect
    \/ CfgJoined

SpecCfg == Init /\ [][NextCfg]_vars

\* The helper thread keeps running while it has not ended, and the signal
\* handler, once entered, keeps running while it is not blocked.
SpecCfgFair ==
    /\ SpecCfg
    /\ WF_vars(\E outcome \in CfgOutcomes : CfgSendData(outcome))
    /\ WF_vars(\E outcome \in CfgOutcomes : CfgConnectionSleep(outcome))
    /\ WF_vars(CfgReconnect)
    /\ WF_vars(CfgDisconnect)
    /\ WF_vars(CfgJoined)

\* The broker does not refuse the publications of the helper thread for
\* ever: a _send_data that could be confirmed again and again is confirmed.
SpecCfgBrokerAccepts ==
    /\ SpecCfgFair
    /\ SF_vars(config_publishing_queue > 0 /\ CfgSendData("ok"))

\* A worker: the outer loop of start_monitor and the main loop of
\* Monitor.start.
NextWorker ==
    \/ \E raised \in WorkerExceptions : WorkerStart(raised)
    \/ \E raised \in WorkerExceptions : WorkerRound(raised)
    \/ \E raised \in WorkerExceptions : WorkerPeriodSleep(raised)
    \/ WorkerRestartSleepOver

SpecWorker == Init /\ [][NextWorker]_vars

\* The operator's turn in the loop of _monitor, over the chain of the v3
\* collector.
NextData ==
    \/ \E h \in 0..MaxBlock, outcome \in DataOutcomes : GetData(h, outcome)
    \/ \E withEvent \in BOOLEAN, settled \in BOOLEAN :
          V3MineBlock(withEvent, 1, settled)
    \/ \E r \in RoundIds : V3ReachConsensus(r)

SpecData == Init /\ [][NextData]_vars

-----------------------------------------------------------------------------
(* Claims about the v3 collector *)

\* The block of the operator's submission to round r.
V3BlockOf(r) ==
    LET i == CHOOSE j \in DOMAIN v3Events : v3Events[j].round = r
    IN  v3Events[i].blockNumber

RoundsOf(hist) == {hist[i].roundId : i \in DOMAIN hist}

\* C1: after the v3 collector finishes a pair in a tick with head block H,
\* the watermark equals the block of the event whose getRoundData raised
\* minus 1, which is strictly below H, and equals H when no call raised.
ThmC1 ==
    v3Tick.status = "finished" =>
        IF v3Tick.no_consensus # {}
        THEN \A r \in v3Tick.no_consensus :
                /\ last_block_monitored[V3Proxy] = V3BlockOf(r) - 1
                /\ last_block_monitored[V3Proxy] < v3Tick.head
        ELSE last_block_monitored[V3Proxy] = v3Tick.head

\* A tick that emitted a round with consensus and then met one without.
WitC1 ==
    /\ v3Tick.status = "finished"
    /\ v3Tick.no_consensus # {}
    /\ Len(v3Tick.historicalRounds) = 2
    /\ v3Tick.first < v3Tick.head

\* C2, as claimed: the event of a round last emitted without consensus lies in
\* the window of every following tick (read here for the ticks whose head has
\* reached the event's block), and the tick that emits the round with its
\* answer advances the watermark to the head.
CexC2 ==
    v3Tick.status = "finished" =>
        \A r \in v3Tick.pending_before :
            /\ V3BlockOf(r) <= v3Tick.head => v3Tick.first <= V3BlockOf(r)
            /\ r \in FilledRounds(v3Tick.historicalRounds)
                  => v3Tick.current_block_height = v3Tick.head

\* C2, amended: a round whose getRoundData raised is emitted with null answer
\* and timestamp and the watermark stays below its event's block until a tick
\* emits it with its answer; its event lies in the window of every following
\* tick whose head is not below that block, and such a tick emits the round
\* again unless it stops at an earlier event without consensus; the tick that
\* emits it with its answer moves the watermark to the head only if no event of
\* its window lacks consensus, and below the head otherwise.
ThmC2 ==
    /\ \A r \in v3Pending : last_block_monitored[V3Proxy] < V3BlockOf(r)
    /\ v3Tick.status = "finished" =>
        /\ \A i \in DOMAIN v3Tick.historicalRounds :
              LET e == v3Tick.historicalRounds[i]
              IN  /\ e.roundId \in v3Tick.no_consensus
                        => e.roundAnswer = NULL /\ e.roundTimestamp = NULL
                  /\ e.roundId \notin v3Tick.no_consensus
                        => e.roundAnswer # NULL /\ e.roundTimestamp # NULL
        /\ v3Tick.no_consensus \subseteq RoundsOf(v3Tick.historicalRounds)
        /\ \A r \in v3Tick.pending_before :
              /\ V3BlockOf(r) <= v3Tick.head =>
                    /\ v3Tick.first <= V3BlockOf(r)
                    /\ \/ r \in RoundsOf(v3Tick.historicalRounds)
                       \/ \E q \in v3Tick.no_consensus :
                             V3BlockOf(q) < V3BlockOf(r)
              /\ r \in FilledRounds(v3Tick.historicalRounds) =>
                    IF v3Tick.no_consensus = {}
                    THEN v3Tick.current_block_height = v3Tick.head
                    ELSE v3Tick.current_block_height < v3Tick.head

\* A round emitted without consensus in one tick is emitted with its answer
\* by a later tick, which advances the watermark to its head.
WitC2 ==
    /\ v3Tick.status = "finished"
    /\ \E r \in v3Tick.pending_before :
          r \in FilledRounds(v3Tick.historicalRounds)
    /\ v3Tick.no_consensus = {}
    /\ last_block_monitored[V3Proxy] = v3Tick.head

-----------------------------------------------------------------------------
(* Claims about the v4 collector *)

\* The NewTransmission event of round r.
V4EventOf(r) ==
    LET i == CHOOSE j \in DOMAIN v4Events : v4Events[j].round = r
    IN  v4Events[i]

\* The operator's transmitter index, as the last tick found it, is among the
\* observers of round r.
V4Answered(r) ==
    IndexOf(V4EventOf(r).observers, v4Tick.node_transmitter_index) # NULL

\* The places in the last tick's historicalRounds of the rounds the operator
\* observed.
V4AnsweredEntries ==
    {i \in DOMAIN v4Tick.historicalRounds :
        V4Answered(v4Tick.historicalRounds[i].roundId)}

\* C3, as claimed: a round of the window whose observers do not contain the
\* operator's transmitter index is emitted with nodeSubmission null, and the
\* emitted and the stored lastRoundObserved are still advanced to its id.
CexC3 ==
    v4Tick.status = "finished" =>
        \A i \in DOMAIN v4Tick.historicalRounds :
            LET e == v4Tick.historicalRounds[i]
            IN  ~V4Answered(e.roundId) =>
                    /\ e.nodeSubmission = NULL
                    /\ v4Tick.lastRoundObserved >= e.roundId
                    /\ last_round_observed[V4Proxy] >= e.roundId

\* C3, amended: such a round is emitted with nodeSubmission null and does not
\* advance lastRoundObserved: the emitted and the stored value are the id of
\* the last round of the window whose observers contain the operator's index,
\* and the value stored before the tick when the window has no such round.
ThmC3 ==
    v4Tick.status = "finished" =>
        /\ \A i \in DOMAIN v4Tick.historicalRounds :
              LET e == v4Tick.historicalRounds[i]
              IN  ~V4Answered(e.roundId) => e.nodeSubmission = NULL
        /\ v4Tick.lastRoundObserved =
              IF V4AnsweredEntries = {}
              THEN v4Tick.last_round_before
              ELSE LET last == CHOOSE i \in V4AnsweredEntries :
                                  \A j \in V4AnsweredEntries : j <= i
                   IN  v4Tick.historicalRounds[last].roundId
        /\ last_round_observed[V4Proxy] = v4Tick.lastRoundObserved

\* A tick whose window holds a round the operator observed and then one it
\* did not: the last round observed is the first of the two.
WitC3 ==
    /\ v4Tick.status = "finished"
    /\ Len(v4Tick.historicalRounds) = 2
    /\ V4AnsweredEntries = {1}
    /\ v4Tick.historicalRounds[2].nodeSubmission = NULL
    /\ last_round_observed[V4Proxy] = v4Tick.historicalRounds[1].roundId

-----------------------------------------------------------------------------
(* Claims about the manager *)

\* The places of the last run where a child process was started.
ChildStartsOf(trace) == {i \in DOMAIN trace : trace[i] = "start_child"}

\* C4: whenever the manager starts or restarts a child process, in start() or
\* in a ping, the ComponentReset alert of that run has been published before
\* the process is started, and no process is started without it.
ThmC4 ==
    /\ \A i \in ChildStartsOf(mgrRun.trace) :
          \E j \in 1..(i - 1) : mgrRun.trace[j] = "publish_own"
    /\ child_starts > 0 => resets_published > 0
    /\ child_starts <= resets_published

\* A ping restarts the dead child after publishing a reset alert that an
\* earlier ping left in the queue, and then its own.
WitC4 ==
    /\ mgrRun.op = "ping"
    /\ mgrRun.trace = <<"publish_queued", "publish_own", "start_child">>
    /\ IsAlive(alerter_process_dict, GITHUB_ALERTER_NAME)

\* C5, as claimed: a run of the start-children routine leaves one live child
\* per name (read here for the runs that do not raise), a run that finds the
\* child alive starts nothing and publishes nothing, and over any sequence of
\* runs exactly one ComponentReset alert is published per actual start or
\* restart of a child.
CexC5 ==
    /\ (mgrRun.invoked /\ ~mgrRun.raised) => mgrRun.left_alive = AlerterNames
    /\ (mgrRun.invoked /\ mgrRun.found_alive = AlerterNames)
          => mgrRun.trace = <<>>
    /\ resets_published = child_starts

\* C6, as claimed: the ping that finds the child dead publishes the reset
\* alert, restarts the child, and answers with a heartbeat that reports the
\* child as running.
CexC6 ==
    (/\ mgrRun.op = "ping"
     /\ mgrRun.heartbeat.dead_processes # {}
     /\ mgrRun.hb = "delivered")
        => /\ ChildStartsOf(mgrRun.trace) # {}
           /\ GITHUB_ALERTER_NAME \in mgrRun.heartbeat.running_processes

\* C6, amended: the ping that finds the child dead publishes the reset alert
\* and then, the publication confirmed, restarts the child; the heartbeat it
\* answers with reports the child as dead, and a heartbeat reports the child
\* as running only when its ping found the child alive; when the publication
\* fails the child is not restarted and the ping is not answered.
ThmC6 ==
    mgrRun.op = "ping" =>
        /\ mgrRun.heartbeat.dead_processes # {} =>
              /\ GITHUB_ALERTER_NAME \in mgrRun.heartbeat.dead_processes
              /\ GITHUB_ALERTER_NAME \notin mgrRun.heartbeat.running_processes
              /\ IF mgrRun.raised
                 THEN /\ ChildStartsOf(mgrRun.trace) = {}
                      /\ mgrRun.hb = "none"
                 ELSE /\ mgrRun.trace[Len(mgrRun.trace)] = "start_child"
                      /\ mgrRun.trace[Len(mgrRun.trace) - 1] = "publish_own"
                      /\ Cardinality(ChildStartsOf(mgrRun.trace)) = 1
        /\ mgrRun.heartbeat.dead_processes = {} =>
              /\ mgrRun.trace = <<>>
              /\ mgrRun.heartbeat.running_processes = AlerterNames

\* A ping finds the child dead, publishes its reset alert, restarts it and
\* delivers a heartbeat that lists it as dead.
WitC6 ==
    /\ mgrRun.op = "ping"
    /\ mgrRun.hb = "delivered"
    /\ mgrRun.heartbeat.dead_processes = {GITHUB_ALERTER_NAME}
    /\ mgrRun.trace = <<"publish_own", "start_child">>
    /\ IsAlive(alerter_process_dict, GITHUB_ALERTER_NAME)

-----------------------------------------------------------------------------
(* Claims about the transformer *)

\* The last run transformed a raw message of the given kind and code.
DTProcessed(kind, code) ==
    /\ dtRun.op = "processed"
    /\ dtRun.raw.kind = kind
    /\ dtRun.raw.code = code

\* The state of the system of the last run, after it.
DTSystemNow == dtState[dtRun.raw.system_id][1]

\* C7: a downtime error sets went_down_at to its time when it was null and
\* leaves it when it was set, a result clears it, another error leaves it; so
\* went_down_at is the time of the first downtime error since the last
\* result, and is set whenever the last message was a downtime error.
ThmC7 ==
    /\ DTProcessed("error", DOWNTIME_CODE) =>
          /\ DTSystemNow.went_down_at =
                IF dtRun.previous.went_down_at = None
                THEN Some(dtRun.raw.time)
                ELSE dtRun.previous.went_down_at
          /\ DTSystemNow.went_down_at # None
    /\ DTProcessed("result", "") => DTSystemNow.went_down_at = None
    /\ DTProcessed("error", OTHER_CODE) =>
          DTSystemNow.went_down_at = dtRun.previous.went_down_at
    /\ \A id \in SystemIds :
          dtState[id] # None => dtState[id][1].went_down_at = dtFirstDown[id]

\* A second downtime error in a row: went_down_at keeps the time of the first.
WitC7 ==
    /\ DTProcessed("error", DOWNTIME_CODE)
    /\ ~dtRun.first_sight
    /\ dtRun.previous.went_down_at # None
    /\ DTSystemNow.went_down_at = Some(dtRun.raw.time - 1)

\* What C8 says of the flat metrics of a result: the state, the save payload
\* and every current value equal the message's metric, and every previous
\* value is the state's before the message.
C8Metrics ==
    \A f \in FlatMetrics :
        /\ DTSystemNow[f] = Some(dtRun.raw.data[f])
        /\ dtRun.data_for_saving.data[f] = Some(dtRun.raw.data[f])
        /\ dtRun.data_for_alerting.data[f].current = Some(dtRun.raw.data[f])
        /\ dtRun.data_for_alerting.data[f].previous = dtRun.previous[f]

\* C8, as claimed: ... and the previous values are null on first sight.
CexC8 ==
    DTProcessed("result", "") =>
        /\ C8Metrics
        /\ dtRun.first_sight =>
              \A f \in FlatMetrics :
                  dtRun.data_for_alerting.data[f].previous = None

\* C8, amended: ... and on first sight the previous values are the ones of the
\* state loaded from the store, null when the store does not hold the system
\* or cannot be reached.
ThmC8 ==
    DTProcessed("result", "") =>
        /\ C8Metrics
        /\ dtRun.first_sight =>
              \A f \in FlatMetrics :
                  dtRun.data_for_alerting.data[f].previous =
                      IF dtRun.stored = None THEN None ELSE dtRun.stored[1][f]

\* A restarted transformer sees the system for the first time and loads its
\* state from the store: the previous values are the stored ones.
WitC8 ==
    /\ DTProcessed("result", "")
    /\ dtRun.first_sight
    /\ dtRun.previous.network_transmit_bytes_total = Some(0)
    /\ dtRun.data_for_alerting.data.network_transmit_bytes_total =
          [current |-> Some(1), previous |-> Some(0)]

\* Two exact quotients are equal.
RatEq(a, b) == a.num * b.den = b.num * a.den

\* The total a derived metric is computed from.
TotalOf(f) ==
    IF f = "network_transmit_bytes_per_second"
    THEN "network_transmit_bytes_total"
    ELSE "disk_io_time_seconds_total"

\* (x_now - x_prev) / (t_now - t_prev) of the derived metric f in the last run.
C9Rate(f) ==
    [num |-> dtRun.raw.data[TotalOf(f)] - dtRun.previous[TotalOf(f)][1],
     den |-> dtRun.raw.time - dtRun.previous.last_monitored[1]]

\* C9, as claimed: every derived metric is null when the state holds no
\* earlier observation, and is (x_now - x_prev) / (t_now - t_prev) otherwise.
CexC9 ==
    DTProcessed("result", "") =>
        \A f \in DerivedMetrics :
            IF dtRun.previous.last_monitored = None
            THEN dtRun.transformed.data[f] = None
            ELSE /\ dtRun.transformed.data[f] # None
                 /\ RatEq(dtRun.transformed.data[f][1], C9Rate(f))

\* C9, amended: the derived metrics are null when the state holds no earlier
\* result; otherwise a *_per_second metric is (x_now - x_prev) / (t_now -
\* t_prev), t_prev being the stored last_monitored, and the *_in_interval
\* metric is the difference x_now - x_prev, not divided.
ThmC9 ==
    DTProcessed("result", "") =>
        IF dtRun.previous.last_monitored = None
        THEN \A f \in DerivedMetrics : dtRun.transformed.data[f] = None
        ELSE /\ dtRun.transformed.data.network_transmit_bytes_per_second
                  = Some(C9Rate("network_transmit_bytes_per_second"))
             /\ C9Rate("network_transmit_bytes_per_second").den >= 1
             /\ dtRun.transformed.data.disk_io_time_seconds_in_interval
                  = Some([num |->
                            C9Rate("disk_io_time_seconds_in_interval").num,
                          den |-> 1])

\* A result two time units after the last one, both totals having grown.
WitC9 ==
    /\ DTProcessed("result", "")
    /\ dtRun.previous.last_monitored = Some(dtRun.raw.time - 2)
    /\ dtRun.transformed.data.network_transmit_bytes_per_second
          = Some([num |-> 1, den |-> 2])
    /\ dtRun.transformed.data.disk_io_time_seconds_in_interval
          = Some([num |-> 1, den |-> 1])

\* The payloads the last run placed on the publishing queue.
OwnAlertPayload == [exchange |-> "alert", data |-> dtRun.data_for_alerting]
OwnSavePayload == [exchange |-> "store", data |-> dtRun.data_for_saving]

\* The broker confirmed the given payload in the last run.
WasPublished(payload) ==
    \E i \in DOMAIN dtRun.published : dtRun.published[i] = payload

\* The last run transformed a message that changes the state, and the send
\* raised MessageWasNotDelivered before the alert payload was confirmed.
AlertNotDelivered ==
    /\ dtRun.op = "processed"
    /\ dtRun.send_raised
    /\ ~WasPublished(OwnAlertPayload)
    /\ UpdateState(dtRun.previous, dtRun.transformed) # dtRun.previous

\* The given system is as the message of the last run leaves it.
ReflectsMessage(system) ==
    /\ system # None
    /\ UpdateState(system[1], dtRun.transformed) = system[1]

-----------------------------------------------------------------------------
(* Claims about the alerts configs factory *)

\* The last call was add_new_config.
FactoryAdded == factoryRun.op = "add_new_config"

\* At least two sections of the configuration sent carry different parent ids.
TwoParentIds ==
    \E j, k \in DOMAIN factoryRun.parent_ids :
        factoryRun.parent_ids[j] # factoryRun.parent_ids[k]

\* C11: add_new_config fails with the parent-id mismatch error if and only if
\* two sections of sent_configs carry different parent ids.
CexC11 ==
    FactoryAdded =>
        (factoryRun.outcome = "ParentIdsMissMatchInAlertsConfiguration"
            <=> TwoParentIds)

\* C12: when add_new_config fails, the factory's configs are what they were
\* before the call, for the chain of the call and for every other chain.
ThmC12 ==
    (FactoryAdded /\ factoryRun.outcome # "returned") =>
        \A chain_name \in ChainNames :
            factory_configs[chain_name] = factoryRun.before[chain_name]

\* A mismatching configuration is sent for a chain that has a config.
WitC12 ==
    /\ FactoryAdded
    /\ factoryRun.outcome = "ParentIdsMissMatchInAlertsConfiguration"
    /\ factoryRun.before[factoryRun.chain_name] # None
    /\ factory_configs[factoryRun.chain_name] # None

-----------------------------------------------------------------------------
(* Claims about the ticks of the Chainlink contracts monitor *)

\* The last step of the monitor was a run of _monitor.
MonTicked == monTick.op = "monitor"

\* The data messages of the last tick that are about the given node.
MessagesOf(node_id) ==
    {i \in DOMAIN monTick.sent :
        /\ monTick.sent[i].kind = "result"
        /\ monTick.sent[i].node_id = node_id}

\* The error payloads of the last tick.
ErrorsSent == {i \in DOMAIN monTick.sent : monTick.sent[i].kind = "error"}

\* The last tick selected no synced EVM node.
NoSyncedSource == MonTicked /\ monTick.select_called /\ ~monTick.collecting

ThmC14 ==
    (MonTicked /\ monTick.raised # {}) =>
        /\ \A n \in monTick.raised : MessagesOf(n) = {}
        /\ \A n \in (DOMAIN node_address) \ monTick.raised :
              Cardinality(MessagesOf(n)) = 1
        /\ monTick.heartbeat

\* The first operator's retrieval raises and the second gets its message.
WitC14 ==
    /\ MonTicked
    /\ monTick.raised = {"node_1"}
    /\ DOMAIN node_address = NodeIds
    /\ Cardinality(MessagesOf("node_2")) = 1
    /\ monTick.heartbeat

\* C15: a limiter is advanced only by a refresh that succeeded: after a fetch
\* of the catalog that raised, and after a refresh in which some node yielded
\* no address, the limiter still allows the task, so the next tick retries.
ThmC15 ==
    MonTicked =>
        /\ monTick.fetch_raised => wei_watchers_can_do_task
        /\ monTick.error_occurred => address_can_do_task
        /\ (monTick.before.wei_watchers_can_do_task
               /\ ~wei_watchers_can_do_task) =>
              (monTick.fetch_attempted /\ ~monTick.fetch_raised)
        /\ (monTick.before.address_can_do_task /\ ~address_can_do_task) =>
              (monTick.address_attempted /\ ~monTick.error_occurred)

\* Both refreshes fail in one tick and both limiters still allow the task.
WitC15 ==
    /\ MonTicked
    /\ monTick.fetch_raised
    /\ monTick.error_occurred
    /\ wei_watchers_can_do_task
    /\ address_can_do_task

\* C16, as claimed: after a refresh failure the stored catalog and the
\* addresses known before are kept, and the collectors run for every operator
\* whose address was known before.
CexC16 ==
    MonTicked =>
        /\ monTick.fetch_raised =>
              contracts_data = monTick.before.contracts_data
        /\ (monTick.fetch_raised \/ monTick.error_occurred) =>
              \A n \in DOMAIN monTick.before.node_address :
                  /\ n \in DOMAIN node_address
                  /\ node_address[n] = monTick.before.node_address[n]
                  /\ (monTick.fetch_raised \/ monTick.collecting) =>
                        (MessagesOf(n) # {} \/ n \in monTick.raised)

\* C16, amended: after a catalog failure the stored catalog is kept and the
\* tick publishes the error payload without running any collector; after an
\* address failure the addresses just retrieved replace the stored ones, so
\* the collectors run only for the nodes that yielded an address this time.
ThmC16 ==
    MonTicked =>
        /\ monTick.fetch_raised =>
              /\ contracts_data = monTick.before.contracts_data
              /\ \A n \in NodeIds : MessagesOf(n) = {}
              /\ monTick.raised = {}
              /\ monTick.sent =
                    <<ProcessError("CouldNotRetrieveContractsException")>>
        /\ monTick.error_occurred =>
              /\ node_address = monTick.retrieved
              /\ DOMAIN node_address # NodeIds
              /\ \A n \in NodeIds :
                    (MessagesOf(n) # {} \/ n \in monTick.raised) =>
                        n \in DOMAIN monTick.retrieved
              /\ monTick.collecting =>
                    \A n \in DOMAIN monTick.retrieved :
                        (MessagesOf(n) # {} \/ n \in monTick.raised)

\* A node whose address was known yields none: it is dropped, and only the
\* other node is collected.
WitC16 ==
    /\ MonTicked
    /\ monTick.error_occurred
    /\ monTick.collecting
    /\ DOMAIN monTick.before.node_address = NodeIds
    /\ DOMAIN node_address = {"node_2"}
    /\ MessagesOf("node_1") = {}
    /\ MessagesOf("node_2") # {}

\* C17: a tick publishes at most one data message per operator; when the
\* catalog cannot be fetched or no synced source is selected it publishes
\* exactly one error payload and no data message.
ThmC17 ==
    MonTicked =>
        /\ \A n \in NodeIds : Cardinality(MessagesOf(n)) <= 1
        /\ (monTick.fetch_raised \/ NoSyncedSource) =>
              /\ Cardinality(ErrorsSent) = 1
              /\ Len(monTick.sent) = 1
        /\ ~(monTick.fetch_raised \/ NoSyncedSource) => ErrorsSent = {}

\* The catalog fetch raises while two operators have an address: one error
\* payload.
WitC17 ==
    /\ MonTicked
    /\ monTick.fetch_raised
    /\ DOMAIN node_address = NodeIds
    /\ monTick.sent = <<ProcessError("CouldNotRetrieveContractsException")>>

-----------------------------------------------------------------------------
(* The watermark of the v4 collector *)

\* C18: the v4 collector never rolls the watermark back: whenever it updates
\* last_block_monitored[operator][proxy] the new value is the head block read
\* in that tick, whatever the events of the window contain, and it is never
\* lower than the value stored before the tick.
CexC18 ==
    v4Tick.status = "finished" =>
        /\ last_block_monitored[V4Proxy] = v4Tick.head
        /\ v4Tick.last_block_before # NULL =>
              last_block_monitored[V4Proxy] >= v4Tick.last_block_before

-----------------------------------------------------------------------------
(* The acknowledgements of the alerter's callback *)

\* The position of the acknowledgement in the steps of the last run, 0 when
\* the run did not acknowledge.
AckPosition ==
    IF \E i \in DOMAIN alerterRun.trace : alerterRun.trace[i] = "ack"
    THEN CHOOSE i \in DOMAIN alerterRun.trace : alerterRun.trace[i] = "ack"
    ELSE 0

\* C19, as stated: a consumer processes the messages of its queue in delivery
\* order and acknowledges a message only after the state update and all the
\* publications caused by it have completed; when publishing fails with a
\* broker error the message is not acknowledged.
CexC19 ==
    alerterRun.op = "process_data" =>
        /\ alerterRun.tag = delivered - Len(alerter_input)
        /\ alerterRun.raised \in SendExceptions \ {"Exception"} =>
              ack_count[alerterRun.tag] = 0
        /\ alerterRun.raised = "none" =>
              /\ ack_count[alerterRun.tag] = 1
              /\ AckPosition = Len(alerterRun.trace)

\* C19, corrected: the messages are processed in delivery order (each run is on
\* the oldest message not processed before it), and a
\* message is acknowledged after its processing (the state update) and the
\* placing of its alerts on the publishing queue, and before anything is
\* published: no publication and no heartbeat precedes the acknowledgement,
\* and a message whose publishing fails with a broker error has been
\* acknowledged all the same.
ThmC19 ==
    alerterRun.op = "process_data" =>
        /\ alerterRun.tag = delivered - Len(alerter_input)
        /\ AckPosition > 0
        /\ \A i \in DOMAIN alerterRun.trace :
              IF i < AckPosition
              THEN alerterRun.trace[i] \in {"process", "place"}
              ELSE i > AckPosition =>
                      alerterRun.trace[i] \in {"publish", "publish_raises",
                                               "heartbeat", "heartbeat_raises"}
        /\ alerterRun.trace[1] = "process"
        /\ alerterRun.data_for_alerting # <<>> =>
              alerterRun.trace[AckPosition - 1] = "place"
        /\ alerterRun.raised \in SendExceptions \ {"Exception"} =>
              ack_count[alerterRun.tag] = 1

\* A message raised an alert, the broker refused its publication with a
\* connection error, and the message is acknowledged.
WitC19 ==
    /\ alerterRun.op = "process_data"
    /\ alerterRun.data_for_alerting # <<>>
    /\ alerterRun.published = <<>>
    /\ alerterRun.raised = "AMQPConnectionError"
    /\ ack_count[alerterRun.tag] = 1

\* C20: the callback acknowledges the delivered message exactly once on every
\* path: for valid data, for malformed data, when the processing raises, and
\* when sending the queued data or the heartbeat raises a connection, channel
\* or other exception. Every message processed so far has one
\* acknowledgement, the last one got it in its own run, and no message has
\* one before it is processed.
ThmC20 ==
    /\ \A tag \in DeliveryTags :
          ack_count[tag] =
              IF tag <= delivered - Len(alerter_input) THEN 1 ELSE 0
    /\ alerterRun.op = "process_data" =>
          /\ alerterRun.acks_before = 0
          /\ Count(alerterRun.trace, "ack") = 1

\* A message whose processing raised, sent while the channel fails: the
\* exception leaves the callback and the message has its acknowledgement.
WitC20 ==
    /\ alerterRun.op = "process_data"
    /\ alerterRun.processing_error
    /\ alerterRun.outcome = "AMQPChannelError"
    /\ ack_count[alerterRun.tag] = 1

-----------------------------------------------------------------------------
(* Malformed raw data *)

\* C21: a raw message that is neither a result nor an error, or that lacks a
\* required key, is acknowledged and dropped: no system's state changes,
\* nothing is added to the publishing queue (what is left of it is what was
\* waiting and has not been published by this run), and no heartbeat is sent.
ThmC21 ==
    dtRun.op = "dropped" =>
        /\ dtRun.acknowledged
        /\ dtState = dtRun.state_before
        /\ dtRun.queue_before = dtRun.published \o dt_publishing_queue
        /\ ~dtRun.heartbeat

\* A result lacking a key arrives while a system has a state and payloads are
\* waiting on the queue, all of which the broker now confirms.
WitC21 ==
    /\ dtRun.op = "dropped"
    /\ dtRun.raw.kind = "missing_keys"
    /\ dtState[dtRun.raw.system_id] # None
    /\ dtRun.published # <<>>
    /\ ~dtRun.send_raised

-----------------------------------------------------------------------------
(* The heartbeat of the alerter's callback *)

\* C22, as stated: the callback publishes a heartbeat for a message if and
\* only if processing the message raised no error and sending the queued data
\* succeeded; when sending fails with MessageWasNotDelivered the failure is
\* caught and logged and no heartbeat is published for that message.
CexC22 ==
    alerterRun.op = "process_data" =>
        /\ Count(alerterRun.trace, "heartbeat") = 1
           <=> (~alerterRun.processing_error /\ ~alerterRun.send_raised)
        /\ (alerterRun.send_raised
            /\ alerterRun.raised = "MessageWasNotDelivered") =>
              /\ alerterRun.outcome = "returned"
              /\ Count(alerterRun.trace, "heartbeat") = 0

\* C22, corrected: the callback sends the heartbeat if and only if processing
\* the message raised no error and sending the queued data succeeded, and the
\* heartbeat is published if and only if, moreover, its own publication is
\* delivered; when sending the data fails with MessageWasNotDelivered the
\* failure is caught and no heartbeat is sent for that message.
ThmC22 ==
    alerterRun.op = "process_data" =>
        /\ alerterRun.heartbeat # "none"
           <=> (~alerterRun.processing_error /\ ~alerterRun.send_raised)
        /\ Count(alerterRun.trace, "heartbeat") = 1
           <=> alerterRun.heartbeat = "delivered"
        /\ Count(alerterRun.trace, "heartbeat") <= 1
        /\ (alerterRun.send_raised
            /\ alerterRun.raised = "MessageWasNotDelivered") =>
              /\ alerterRun.outcome = "returned"
              /\ alerterRun.heartbeat = "none"

\* A message processed without error whose alert the broker does not deliver:
\* the callback returns, and no heartbeat is sent.
WitC22 ==
    /\ alerterRun.op = "process_data"
    /\ ~alerterRun.processing_error
    /\ alerterRun.send_raised
    /\ alerterRun.raised = "MessageWasNotDelivered"
    /\ alerterRun.heartbeat = "none"

-----------------------------------------------------------------------------
(* The resolution alerts of the alerter *)

\* The alerts of the given code that the last run classified.
AlertsOf(alert_code) ==
    {i \in DOMAIN alerterRun.data_for_alerting :
        alerterRun.data_for_alerting[i].alert_code = alert_code}

\* C23: the alerter emits a resolution alert for a repository only if it
\* emitted an error alert of the same condition for that repository that has
\* not been resolved since: never on the first message of a repository, never
\* twice without an error alert in between, and always about the repository
\* of the message.
ThmC23 ==
    alerterRun.op = "process_data" =>
        /\ AlertsOf("GitHubPageNowAccessibleAlert") # {} =>
              /\ "cannot_access" \in alerterRun.unresolved_before
              /\ Cardinality(AlertsOf("GitHubPageNowAccessibleAlert")) = 1
        /\ AlertsOf("GitHubAPICallErrorResolvedAlert") # {} =>
              /\ "api_call" \in alerterRun.unresolved_before
              /\ Cardinality(AlertsOf("GitHubAPICallErrorResolvedAlert")) = 1
        /\ \A i \in DOMAIN alerterRun.data_for_alerting :
              alerterRun.data_for_alerting[i].origin_id = alerterRun.repo_id

\* A repository's page is reported accessible again while the other
\* repository, alerted on as well, stays unresolved.
WitC23 ==
    /\ alerterRun.op = "process_data"
    /\ AlertsOf("GitHubPageNowAccessibleAlert") # {}
    /\ "cannot_access" \in alerterRun.unresolved_before
    /\ unresolved[alerterRun.repo_id] = {}
    /\ \E other \in RepoIds \ {alerterRun.repo_id} :
          /\ "cannot_access" \in unresolved[other]
          /\ cannot_access_github_page[other]

\* C24: once a cannot-access alert has been raised for a repository, the
\* first later message for that repository in which the condition has cleared
\* (a result, or an error with a different code) produces exactly one
\* page-now-accessible alert and clears the cannot-access flag of the
\* repository.
CexC24 ==
    (/\ alerterRun.op = "process_data"
     /\ "cannot_access" \in alerterRun.unresolved_before
     /\ alerterRun.kind \in {"result", "result_new_release",
                             "error_api_call", "error_other"}) =>
        /\ Cardinality(AlertsOf("GitHubPageNowAccessibleAlert")) = 1
        /\ ~cannot_access_github_page[alerterRun.repo_id]

-----------------------------------------------------------------------------
(* The heartbeat of the manager *)

\* C25: the heartbeat answered to a ping lists every child of the manager in
\* exactly one of running_processes and dead_processes: in running_processes
\* if its process was alive when the ping was handled, in dead_processes
\* otherwise, also when the dead child is restarted while that ping is handled.
ThmC25 ==
    (mgrRun.op = "ping" /\ mgrRun.hb # "none") =>
        \A name \in AlerterNames :
            /\ name \in mgrRun.heartbeat.running_processes
               <=> name \in mgrRun.found_alive
            /\ name \in mgrRun.heartbeat.dead_processes
               <=> name \notin mgrRun.found_alive
            /\ ~(/\ name \in mgrRun.heartbeat.running_processes
                 /\ name \in mgrRun.heartbeat.dead_processes)

\* The ping finds the alerter dead and restarts it; the heartbeat it delivers
\* lists the alerter, alive again, among the dead processes only.
WitC25 ==
    /\ mgrRun.op = "ping"
    /\ mgrRun.hb = "delivered"
    /\ GITHUB_ALERTER_NAME \in mgrRun.left_alive \ mgrRun.found_alive
    /\ mgrRun.heartbeat.dead_processes = {GITHUB_ALERTER_NAME}
    /\ mgrRun.heartbeat.running_processes = {}

\* C26: if handling a ping raises while the heartbeat is built or the dead
\* children are restarted (the publication of the reset alert failing
\* included), no heartbeat is sent for that ping and the exception does not
\* leave the handler: the manager goes on listening.
ThmC26 ==
    (mgrRun.op = "ping" /\ mgrRun.raised) =>
        /\ mgrRun.hb = "none"
        /\ mgrPhase = "listening"
        /\ mgrRun.left_alive = mgrRun.found_alive

\* The ping finds the alerter dead and the broker does not take the reset
\* alert: no heartbeat, no restart, the manager listening.
WitC26 ==
    /\ mgrRun.op = "ping"
    /\ mgrRun.raised
    /\ mgrRun.invoked
    /\ mgrRun.hb = "none"
    /\ mgrPhase = "listening"
    /\ ~IsAlive(alerter_process_dict, GITHUB_ALERTER_NAME)

\* C27: no broker adapter of the config manager is connected, used or
\* disconnected by more than one thread, also while the helper thread
\* recovers from a connection error and while the process shuts down.
CexC27 ==
    \A a \in Adapters : Cardinality(adapter_threads[a]) <= 1

\* C28: once the signal handler is entered, the shutdown completes
\* (the observer is stopped, the adapters are disconnected, the helper thread
\* has ended and the process has exited), and after the handler has
\* disconnected no adapter is connected again.
CexC28 ==
    /\ (cfg_main_thread = "disconnecting")
            ~> (/\ cfg_main_thread = "exited"
                /\ sending_configs_thread = "ended"
                /\ ~watching
                /\ \A a \in Adapters : ~adapter_connected[a])
    /\ [][(cfg_main_thread \in {"joining", "exited"})
            => \A a \in Adapters :
                    (adapter_connected'[a] => adapter_connected[a])]_vars

\* C29: when monitor.start() ends with a broker connection error or an
\* unexpected fault, start_monitor disconnects, logs and sleeps
\* RESTART_SLEEPING_PERIOD before it starts the worker again; a channel
\* error in a round leaves the main loop running.
CexC29 ==
    /\ (workerRun.ended
            /\ workerRun.raised \in {"AMQPConnectionError", "Exception"})
        => /\ workerRun.trace = <<"disconnect_from_rabbit", "log", "sleep">>
           /\ worker_phase = "restart_sleep"
           /\ ~worker_connected
    /\ (workerRun.op = "round" /\ workerRun.raised = "AMQPChannelError")
        => (~workerRun.ended /\ worker_phase = "monitoring")

\* C29, as the code has it: after an unexpected fault start_monitor
\* disconnects, logs and sleeps RESTART_SLEEPING_PERIOD before it starts the
\* worker again; after a broker connection error it logs only and starts the
\* worker again at once, the adapter not disconnected; a channel error in a
\* round leaves the main loop running, without a sleep.
ThmC29 ==
    /\ (workerRun.ended /\ workerRun.raised = "Exception")
        => /\ workerRun.trace = <<"disconnect_from_rabbit", "log", "sleep">>
           /\ worker_phase = "restart_sleep"
           /\ ~worker_connected
    /\ (workerRun.ended /\ workerRun.raised = "AMQPConnectionError")
        => /\ workerRun.trace = <<"log">>
           /\ worker_phase = "starting"
    /\ (workerRun.op = "round" /\ workerRun.raised = "AMQPChannelError")
        => (~workerRun.ended /\ worker_phase = "monitoring")

\* A round of a connected worker ends with a broker connection error: the
\* outer loop is back at its top, the adapter still connected, no sleep.
WitC29 ==
    /\ workerRun.op = "round"
    /\ workerRun.ended
    /\ workerRun.raised = "AMQPConnectionError"
    /\ worker_phase = "starting"
    /\ worker_connected
    /\ workerRun.trace = <<"log">>

\* C30: in a round the heartbeat is published only after every payload of
\* the round has been published, and when the publication of a payload fails
\* nothing further is published in that round, no heartbeat in particular.
ThmC30 ==
    MonTicked =>
        /\ \A i \in DOMAIN monTick.published :
              monTick.published[i].kind = "heartbeat"
                  => SubSeq(monTick.published, 1, i - 1) = monTick.sent
        /\ monTick.failing \in 1..Len(monTick.sent)
              => /\ monTick.published
                        = SubSeq(monTick.sent, 1, monTick.failing - 1)
                 /\ \A i \in DOMAIN monTick.published :
                        monTick.published[i].kind # "heartbeat"

\* The round has the data of both nodes to publish; the first is confirmed,
\* the second fails: the first is all the round has published.
WitC30 ==
    /\ MonTicked
    /\ Len(monTick.sent) = 2
    /\ monTick.failing = 2
    /\ monTick.published = <<monTick.sent[1]>>
    /\ monTick.sent[1].kind = "result"

-----------------------------------------------------------------------------
(* The watermarks and the messages of an operator *)

\* C31: the watermark of a pair moves past a block only in a tick in which
\* the operator's message, holding the rounds of the window, is published:
\* every submission of a block the watermark has passed has had its round
\* published.
CexC31 ==
    \A i \in DOMAIN v3Events :
        v3Events[i].blockNumber \in passed_blocks
            => v3Events[i].round \in published_rounds

\* C32: the watermark of a pair never decreases from one tick to the next
\* and never exceeds the head block read in the tick, also in the ticks that
\* roll it back for a round without consensus and in the ticks whose head is
\* read from another node.
CexC32 ==
    /\ [][(last_block_monitored[V3Proxy] # NULL)
            => (last_block_monitored'[V3Proxy]
                    >= last_block_monitored[V3Proxy])]_vars
    /\ [](v3Tick.status = "finished"
            => last_block_monitored[V3Proxy] <= v3Tick.head)

\* C33: a round that has reached consensus is emitted in the historicalRounds
\* of at most one tick of its pair: no tick emits with its answer a round
\* that an earlier tick emitted with its answer.
CexC33 ==
    dataRun.op = "get_data" => dataRun.emitted_again = {}

\* C34: for every pair and every tick the scanned window [first, current] has
\* current = the head read in the tick and first = the previous watermark + 1
\* clamped to current, first = current when the pair is seen for the first
\* time; so first <= current, and every block above the previous watermark
\* up to the head is in the window.
ThmC34 ==
    v4Tick.status = "finished" =>
        LET before == v4Tick.last_block_before
            first == v4Tick.first
            current == v4Tick.head
        IN  /\ before = NULL => first = current
            /\ (before # NULL /\ before + 1 <= current) => first = before + 1
            /\ (before # NULL /\ before + 1 > current) => first = current
            /\ first <= current
            /\ before # NULL =>
                  \A b \in (before + 1)..current : first <= b /\ b <= current

\* A tick whose window starts right above the previous watermark and spans
\* more than one block.
WitC34 ==
    /\ v4Tick.status = "finished"
    /\ v4Tick.last_block_before # NULL
    /\ v4Tick.first = v4Tick.last_block_before + 1
    /\ v4Tick.first < v4Tick.head
    /\ Len(v4Tick.historicalRounds) > 0

-----------------------------------------------------------------------------
(* The last round observed by the v3 collector *)

\* The events of the window of the last v3 tick, and the highest of a set of
\* round ids.
V3WindowEvents == GetAllEntries(v3Events, v3Tick.first, v3Tick.head)
MaxRound(rounds) == CHOOSE r \in rounds : \A q \in rounds : q <= r

\* C35: after the v3 collector finishes a pair, last_round_observed of the
\* pair is the maximum round id among the events of the window, and keeps
\* its previous value (null if none) when the window contained no event.
CexC35 ==
    v3Tick.status = "finished" =>
        v3Tick.lastRoundObserved =
            IF V3WindowEvents = <<>> THEN v3Tick.last_round_before
            ELSE MaxRound({V3WindowEvents[i].round :
                              i \in DOMAIN V3WindowEvents})

\* C35, amended: the maximum is over the events the loop went through, which
\* are those of historicalRounds: the events of the window up to and
\* including the first one whose round has no consensus.
ThmC35 ==
    v3Tick.status = "finished" =>
        /\ v3Tick.lastRoundObserved =
              IF V3WindowEvents = <<>> THEN v3Tick.last_round_before
              ELSE MaxRound(RoundsOf(v3Tick.historicalRounds))
        /\ \A i \in DOMAIN v3Tick.historicalRounds :
              v3Tick.historicalRounds[i].roundId = V3WindowEvents[i].round
        /\ \A i \in DOMAIN v3Tick.historicalRounds :
              i < Len(v3Tick.historicalRounds) =>
                  v3Tick.historicalRounds[i].roundAnswer # NULL
        /\ Len(v3Tick.historicalRounds) < Len(V3WindowEvents) =>
              v3Tick.no_consensus # {}
        /\ last_round_observed[V3Proxy] = v3Tick.lastRoundObserved

\* A tick whose loop stopped at a round without consensus before the last
\* event of its window.
WitC35 ==
    /\ v3Tick.status = "finished"
    /\ v3Tick.no_consensus # {}
    /\ Len(v3Tick.historicalRounds) < Len(V3WindowEvents)

-----------------------------------------------------------------------------
(* A v4 contract the operator no longer transmits on *)

\* C36: if the operator's address is not among transmitters() of a v4
\* aggregator the collector skips that contract: the operator's message has
\* no entry for the proxy, last_block_monitored and last_round_observed of
\* the pair are left as they were, and the remaining v4 proxies of the
\* operator are still processed.
ThmC36 ==
    v4Tick.status = "skipped" =>
        /\ V4Proxy \notin v4Tick.entries
        /\ last_block_monitored[V4Proxy] = v4Tick.last_block_before
        /\ last_round_observed[V4Proxy] = v4Tick.last_round_before
        /\ V4NextProxy \in v4Tick.entries
        /\ last_block_monitored[V4NextProxy] = v4Tick.head

\* A skipping tick on a pair that has a watermark and a last round from the
\* time the operator was a transmitter, with the head beyond that watermark.
WitC36 ==
    /\ v4Tick.status = "skipped"
    /\ v4Tick.last_round_before # NULL
    /\ v4Tick.last_block_before # NULL
    /\ v4Tick.head > v4Tick.last_block_before

-----------------------------------------------------------------------------
(* The contracts the collectors run with *)

\* C37: whenever the stored catalog or the stored operator-address map has
\* been replaced, participating_contracts is rebuilt from them before a
\* collector next runs: a round that runs the collectors runs them with the
\* contracts filtered from the stored catalog and the stored addresses, also
\* when an earlier round found no synced source or its rebuild raised.
CexC37 ==
    (monTick.op = "monitor" /\ monTick.collecting) =>
        node_contracts = FilterContractsByNode(contracts_data, node_address)

-----------------------------------------------------------------------------
(* The state update and the payloads of the transformer *)

\* The payloads of a sequence that were built from the message of time t.
PayloadsOf(payloads, t) ==
    {i \in DOMAIN payloads : payloads[i].data.time = t}

\* C38: the transformer updates the entity's state before it places the
\* alert and store payloads on the publishing queue: a payload is queued and
\* published only for a message whose state update succeeded, and when the
\* update raises nothing is queued for that message, while a message whose
\* update succeeded has the state updated and its two payloads queued or
\* published.
ThmC38 ==
    /\ dtRun.op = "update_raised" =>
          /\ PayloadsOf(dt_publishing_queue, dtRun.raw.time) = {}
          /\ PayloadsOf(dtRun.published, dtRun.raw.time) = {}
          /\ dtRun.published \o dt_publishing_queue = dtRun.queue_before
          /\ dtState = dtRun.state_before
          /\ dtRun.acknowledged
          /\ ~dtRun.heartbeat
    /\ dtRun.op = "processed" =>
          /\ dtState[dtRun.raw.system_id]
                = Some(UpdateState(dtRun.previous, dtRun.transformed))
          /\ Cardinality(PayloadsOf(dtRun.published \o dt_publishing_queue,
                                    dtRun.raw.time)) = 2

\* An update that raised while payloads of earlier messages were waiting, of
\* which some were published by the run.
WitC38 ==
    /\ dtRun.op = "update_raised"
    /\ dtRun.queue_before # <<>>
    /\ dtRun.published # <<>>
    /\ dt_publishing_queue # <<>>

-----------------------------------------------------------------------------
(* The publishing queue of the alerter *)

\* seq begins with prefix.
StartsWith(seq, prefix) ==
    /\ Len(prefix) <= Len(seq)
    /\ SubSeq(seq, 1, Len(prefix)) = prefix

\* How many of the oldest messages of a queue make room when n_new messages
\* are placed on it.
MakingRoom(queue, n_new) ==
    LET over == Len(queue) + n_new - MaxQueueSize
    IN  IF over <= 0 THEN 0
        ELSE IF over >= Len(queue) THEN Len(queue) ELSE over

\* C39: a message whose publication was not delivered stays in the publishing
\* queue, keeps its place in FIFO order and is sent again with the next send
\* attempt; it is never discarded before it has been delivered, and the
\* queue never holds more than its maximum size: after every run of the
\* callback the messages that were queued before it are, in their order, the
\* first of those the run published followed by those still queued.
CexC39 ==
    [][(alerterRun' # alerterRun) =>
          /\ StartsWith(alerterRun'.published \o alerter_publishing_queue',
                        alerter_publishing_queue)
          /\ Len(alerter_publishing_queue') <= MaxQueueSize]_vars

\* C39, amended: the oldest messages are discarded undelivered when the
\* queue is full and the run places new alerts; the others keep their order,
\* are published before any newer message, and while one of them is queued
\* after a run the sending of that run has raised.
ThmC39 ==
    [][(alerterRun' # alerterRun) =>
          LET old == alerter_publishing_queue
              k == MakingRoom(old, Len(alerterRun'.data_for_alerting))
              kept == SubSeq(old, k + 1, Len(old))
          IN  /\ StartsWith(alerterRun'.published \o alerter_publishing_queue',
                            kept)
              /\ Len(alerter_publishing_queue') <= MaxQueueSize
              /\ alerter_publishing_queue' # <<>> => alerterRun'.send_raised
              /\ alerterRun'.published \o alerter_publishing_queue'
                    = kept \o alerterRun'.data_for_alerting]_vars

\* A run that published messages left queued by an earlier run whose
\* publication was not delivered, and still left a message queued.
WitC39 ==
    /\ alerterRun.op = "process_data"
    /\ Len(alerterRun.published) > Len(alerterRun.data_for_alerting)
    /\ alerterRun.raised = "MessageWasNotDelivered"
    /\ alerter_publishing_queue # <<>>

-----------------------------------------------------------------------------
(* The publication of the queued configs *)

\* C40: every config pushed to the publishing queue of the config manager is
\* eventually published, provided the broker eventually accepts it, the
\* helper thread running for as long as the process runs whatever broker
\* error it meets: while the process has not been told to terminate, a
\* non-empty queue is eventually emptied by a confirmed _send_data.
CexC40 ==
    (config_publishing_queue > 0)
        ~> (\/ config_publishing_queue = 0
            \/ cfg_main_thread \in {"disconnecting", "joining", "exited"})

=============================================================================

